---------------------------- MODULE Spec2Model ----------------------------
(***************************************************************************)
(* Dr. Deuce health assistant: the dialogue orchestrator.                  *)
(*                                                                         *)
(* The model covers the server's in-memory stores (chat_histories,         *)
(* user_health_data), the /query handler (get_response and                 *)
(* process_agent_query), the assessment endpoints that write the stores,   *)
(* and the Streamlit client's confirmation state (st.session_state).       *)
(*                                                                         *)
(* Strings the code inspects (queries, keywords) are sequences of          *)
(* one-character strings, so that lower(), strip() and the substring test  *)
(* `kw in query` are computed as Python computes them.  Texts the code     *)
(* only concatenates (prompts, replies, digests) are sequences of tokens,  *)
(* one token per fixed piece of text, joined with \o as the code joins     *)
(* them with +=.                                                           *)
(*                                                                         *)
(* Every endpoint is `async def` with no await inside, so uvicorn's event  *)
(* loop runs each request handler to completion before the next one        *)
(* starts: a handler is one atomic action.  The one place a handler waits  *)
(* is the call of ollama.chat, which blocks the event loop's thread; the   *)
(* event loop specification splits the /query handler there.               *)
(***************************************************************************)
EXTENDS Integers, Sequences, FiniteSets, TLC

VARIABLES
    chat_histories,     \* user_id -> list of messages      (agent_server.py:99)
    user_health_data,   \* user_id -> dict of records | list (agent_server.py:100)
    session_state,      \* user_id -> the client tab's st.session_state
    turn,               \* what the last handled event did and returned
    steps,              \* number of events handled so far (bounds the run)
    in_flight           \* request id -> a request received and not answered yet

vars == <<chat_histories, user_health_data, session_state, turn, steps, in_flight>>

---------------------------------------------------------------------------
(* Bounds of the model.                                                    *)

\* events (inputs, clicks, submissions) in one run of the dialogue specification
MaxSteps == 3
\* requests in one run of the records specification
MaxRequests == 3
\* events in one run of the window specification
MaxTurns == 6
\* "New Chat" clicks per client tab
MaxNewChats == 1

\* agent_server.py:101
MAX_HISTORY_LENGTH == 10

Users == {"u1"}

---------------------------------------------------------------------------
(* Python strings.                                                         *)

LowerAlphabet ==
    <<"a","b","c","d","e","f","g","h","i","j","k","l","m",
      "n","o","p","q","r","s","t","u","v","w","x","y","z">>

UpperAlphabet ==
    <<"A","B","C","D","E","F","G","H","I","J","K","L","M",
      "N","O","P","Q","R","S","T","U","V","W","X","Y","Z">>

Whitespace == {" ", "\t", "\n"}

\* str.lower() on one character
LowerChar(c) ==
    IF \E i \in 1..Len(UpperAlphabet) : UpperAlphabet[i] = c
    THEN LowerAlphabet[CHOOSE i \in 1..Len(UpperAlphabet) : UpperAlphabet[i] = c]
    ELSE c

\* str.lower()
Lower(s) == [i \in 1..Len(s) |-> LowerChar(s[i])]

\* str.strip(): drop leading and trailing whitespace
Strip(s) ==
    LET keep == {i \in 1..Len(s) : s[i] \notin Whitespace}
    IN  IF keep = {} THEN <<>>
        ELSE LET lo == CHOOSE i \in keep : \A j \in keep : i <= j
                 hi == CHOOSE i \in keep : \A j \in keep : i >= j
             IN  SubSeq(s, lo, hi)

\* `kw in s` for strings: kw is a substring of s
Contains(s, kw) ==
    \E i \in 1..(Len(s) - Len(kw) + 1) : SubSeq(s, i, i + Len(kw) - 1) = kw

\* any(keyword in s for keyword in kws)
AnyKeyword(s, kws) == \E k \in 1..Len(kws) : Contains(s, kws[k])

\* x in [list]
InList(x, xs) == \E k \in 1..Len(xs) : xs[k] = x

---------------------------------------------------------------------------
(* Python dicts: a sequence of [key, val] entries in insertion order.      *)

EmptyDict == <<>>

\* key in d
HasKey(d, k) == \E i \in 1..Len(d) : d[i].key = k

\* d[key]
Get(d, k) == d[CHOOSE i \in 1..Len(d) : d[i].key = k].val

\* d.get(key, default)
GetOr(d, k, default) == IF HasKey(d, k) THEN Get(d, k) ELSE default

\* d[key] = v: replaces the value in place, or appends a new entry
Put(d, k, v) ==
    IF HasKey(d, k)
    THEN [i \in 1..Len(d) |-> IF d[i].key = k THEN [key |-> k, val |-> v] ELSE d[i]]
    ELSE Append(d, [key |-> k, val |-> v])


---------------------------------------------------------------------------
(* The scoring tools, as far as the orchestrator reads their results: the  *)
(* keys of the result dict and whether each text is empty.  A result is a  *)
(* dict from field name to text (a sequence of tokens).                    *)

F(k, v) == [key |-> k, val |-> v]

\* process_vital_signs: the threshold alerts over the submitted readings.
\* Readings are integers; 37.5 is compared as 2*v > 75.
VitalAlerts(vital_signs) ==
    (IF HasKey(vital_signs, "Glucose") /\ Get(vital_signs, "Glucose") > 140
        THEN <<"High glucose levels detected">> ELSE <<>>)
    \o (IF HasKey(vital_signs, "SpO2") /\ Get(vital_signs, "SpO2") < 95
        THEN <<"Low SpO2 levels detected">> ELSE <<>>)
    \o (IF HasKey(vital_signs, "Heart_Rate") /\ Get(vital_signs, "Heart_Rate") > 100
        THEN <<"Elevated heart rate">> ELSE <<>>)
    \o (IF HasKey(vital_signs, "Temperature") /\ 2 * Get(vital_signs, "Temperature") > 75
        THEN <<"Fever detected">> ELSE <<>>)

process_vital_signs(vital_signs) ==
    LET alerts == VitalAlerts(vital_signs)
        critical == \/ (HasKey(vital_signs, "Glucose") /\ Get(vital_signs, "Glucose") > 140)
                    \/ (HasKey(vital_signs, "SpO2") /\ Get(vital_signs, "SpO2") < 95)
    IN  << F("analysis", <<"vital signs report">>),
           F("alerts", IF alerts # <<>> THEN alerts
                       ELSE <<"OK-MARK No abnormal patterns detected.">>),
           F("suggest_consultation", IF Len(alerts) > 0 THEN <<"True">> ELSE <<"False">>),
           F("recommendation", IF critical THEN <<"Please consult your doctor.">>
                               ELSE <<"Continue monitoring regularly.">>) >>

\* analyze_health_score / CustomHealthScoreAnalysisTool.generate_report,
\* for the Glucose reading (the other readings follow the same pattern).
analyze_health_score(health_data) ==
    LET g == Get(health_data, "Glucose")
        has == HasKey(health_data, "Glucose")
        total == IF has /\ 70 <= g /\ g <= 100 THEN 10
                 ELSE IF has /\ 100 < g /\ g <= 125 THEN 5 ELSE 0
        tips == IF ~has \/ (70 <= g /\ g <= 100) THEN <<>>
                ELSE IF 100 < g /\ g <= 125
                     THEN <<"Monitor glucose levels and reduce sugar intake">>
                     ELSE <<"Consult a doctor about your glucose levels">>
        needing == IF ~has \/ (70 <= g /\ g <= 100) THEN <<>>
                   ELSE IF 100 < g /\ g <= 125 THEN <<"Glucose (Moderately High)">>
                        ELSE <<"Glucose (Abnormal)">>
        final == IF has THEN total * 10 ELSE 0
    IN  << F("Total Score", <<ToString(final)>>),
           F("Health Status", IF final >= 85 THEN <<"Excellent">>
                              ELSE IF final >= 70 THEN <<"Good">>
                              ELSE IF final >= 50 THEN <<"Fair">> ELSE <<"Poor">>),
           F("Vitals Needing Improvement", IF needing # <<>> THEN needing ELSE <<"None">>),
           F("Improvement Tips", IF tips # <<>> THEN tips
               ELSE <<"Continue maintaining your current health practices">>) >>

\* "Consult a nephrologist.", spelled out: it carries the keyword "consult"
ConsultNephrologist ==
    <<"C","o","n","s","u","l","t"," ","a"," ","n","e","p","h","r","o","l","o","g","i","s","t",".">>

\* kidney_function_analysis_tool reads data["eGFR"] after enrichment: a
\* KeyError when the input has no eGFR and none can be derived.
KidneyToolRaises(kidney_data) == ~HasKey(kidney_data, "eGFR")

\* kidney_function_analysis_tool: the result has no "recommendations" key.
kidney_function_analysis_tool(kidney_data) ==
    LET egfr == Get(kidney_data, "eGFR")
    IN  << F("analysis", IF egfr >= 90 THEN <<"eGFR: Normal", "eGFR: Stage 1">>
                         ELSE <<"eGFR: Low (Below Normal Range)", "eGFR: Stage 3">>),
           F("overall_health", IF egfr >= 90
                               THEN <<"Your kidney filtration rate is normal.",
                                      "Note: Assessment based on incomplete data.">>
                               ELSE <<"You may have moderate kidney impairment.">>
                                    \o ConsultNephrologist
                                    \o <<"Note: Assessment based on incomplete data.">>),
           F("confidence_level", <<"Low">>),
           F("missing_parameters", <<"ACR", "Serum Creatinine">>),
           F("data", <<"enriched data">>) >>

\* tools_lipid_profile.generate_recommendations: two general recommendations
\* always, more for a high LDL.
generate_recommendations(lipid_data) ==
    <<"Maintain a heart-healthy diet", "Aim for at least 150 minutes of exercise weekly">>
    \o (IF HasKey(lipid_data, "ldl") /\ Get(lipid_data, "ldl") >= 160
        THEN <<"Consider reducing saturated fats">> ELSE <<>>)

analyze_lipid_profile(lipid_data) ==
    << F("classification", IF HasKey(lipid_data, "ldl")
                           THEN (IF Get(lipid_data, "ldl") >= 160
                                 THEN <<"ldl: high">> ELSE <<"ldl: optimal">>)
                           ELSE <<>>),
       F("ascvd_risk", <<"Low">>),
       F("recommendations", generate_recommendations(lipid_data)),
       F("ref_ranges", <<"reference ranges">>) >>

\* analyze_liver_function: parameter_status, risk_level, confidence_level
\* and a never-empty recommendations list.
analyze_liver_function(lft_data) ==
    LET high == HasKey(lft_data, "ALT") /\ Get(lft_data, "ALT") > 56
    IN  << F("parameter_status", IF high THEN <<"ALT: Elevated">> ELSE <<"ALT: Normal">>),
           F("risk_level", IF high THEN <<"Moderate">> ELSE <<"Low">>),
           F("confidence_level", <<"Low">>),
           F("recommendations",
             IF high THEN <<"Some of your liver test results are elevated.">>
             ELSE <<"All your liver test results are within normal limits.">>) >>

\* run_reproductive_agent: recommendations and the chat_prompt of the mode.
run_reproductive_agent(mode, payload) ==
    << F("mode", <<mode>>),
       F("recommendations", <<"reproductive recommendation">>),
       F("chat_prompt", <<"Would you like to chat with Dr. Deuce for deeper insights?">>) >>

Record(data, result, timestamp) ==
    [data |-> data, result |-> result, timestamp |-> timestamp]

\* user_health_data[user_id] is a dict of records, or (after /track-progress
\* or /weekly-digest created it) a list of readings.
DictData(items) == [isList |-> FALSE, items |-> items]
ListData(items) == [isList |-> TRUE, items |-> items]

\* `kind in user_health_data[user_id]`: a key of the dict; for a list, the
\* string is compared with the readings and is never found.
HasRecord(hd, user_id, kind) ==
    /\ user_id \in DOMAIN hd
    /\ ~hd[user_id].isList
    /\ HasKey(hd[user_id].items, kind)

GetRecord(hd, user_id, kind) == Get(hd[user_id].items, kind)

\* A test of the user's data that is always passed.
AnyUserHasData(hd, user_id) == TRUE

\* the truth value of user_health_data.get(user_id, {})
HasAnyData(hd, user_id) == user_id \in DOMAIN hd /\ Len(hd[user_id].items) > 0

---------------------------------------------------------------------------
(* Keyword lists of the /query handler.                                    *)

RecommendationKeywords ==
    << <<"r","e","c","o","m","m","e","n","d","a","t","i","o","n">>,
       <<"a","d","v","i","c","e">>,
       <<"s","u","g","g","e","s","t">>,
       <<"t","i","p","s">>,
       <<"w","h","a","t"," ","s","h","o","u","l","d"," ","i"," ","d","o">> >>

HealthScoreKeywords ==
    << <<"h","e","a","l","t","h"," ","s","c","o","r","e">>,
       <<"a","n","a","l","y","z","e"," ","m","y"," ","h","e","a","l","t","h">>,
       <<"h","e","a","l","t","h"," ","a","n","a","l","y","s","i","s">> >>

VitalSignsKeywords ==
    << <<"v","i","t","a","l"," ","s","i","g","n","s">>,
       <<"m","o","n","i","t","o","r"," ","v","i","t","a","l","s">>,
       <<"c","h","e","c","k"," ","v","i","t","a","l","s">> >>

KidneyFunctionKeywords ==
    << <<"k","i","d","n","e","y"," ","f","u","n","c","t","i","o","n">>,
       <<"k","i","d","n","e","y"," ","t","e","s","t">>,
       <<"r","e","n","a","l"," ","f","u","n","c","t","i","o","n">> >>

LipidProfileKeywords ==
    << <<"l","i","p","i","d"," ","p","r","o","f","i","l","e">>,
       <<"c","h","o","l","e","s","t","e","r","o","l"," ","t","e","s","t">>,
       <<"l","i","p","i","d"," ","t","e","s","t">> >>

ConsultationKeywords ==
    << <<"h","e","a","l","t","h"," ","c","o","n","s","u","l","t","a","t","i","o","n">>,
       <<"c","o","n","s","u","l","t">>,
       <<"m","e","d","i","c","a","l"," ","a","d","v","i","c","e">> >>

\* get_response: the replies it takes for a follow-up to the offer to chat
FollowUpPhrases ==
    << <<"y","e","s">>,
       <<"y","e","s"," ","p","l","e","a","s","e">>,
       <<"s","u","r","e">>,
       <<"o","k","a","y">>,
       <<"y","e","a","h">>,
       <<"o","k">>,
       <<"i"," ","w","a","n","t"," ","t","o"," ","c","h","a","t">> >>

\* QWEN_MODEL, DEEPSEEK_MODEL
MODELS == {"qwen2.5:1.5b", "deepseek-r1:1.5b"}

---------------------------------------------------------------------------
(* Text rendering.                                                         *)

RECURSIVE Flatten(_)
\* "".join(parts)
Flatten(parts) ==
    IF parts = <<>> THEN <<>> ELSE Head(parts) \o Flatten(Tail(parts))

\* timestamp[:10], the date of an ISO timestamp <<date, time>>
DatePart(timestamp) == timestamp[1]

\* A dict key as json.dumps writes it.  The keys that carry an intent
\* keyword are spelled out, so that the keyword test finds it.
Spell(k) ==
    CASE k = "recommendation" ->
           <<"r","e","c","o","m","m","e","n","d","a","t","i","o","n">>
      [] k = "recommendations" ->
           <<"r","e","c","o","m","m","e","n","d","a","t","i","o","n","s">>
      [] k = "Improvement Tips" ->
           <<"I","m","p","r","o","v","e","m","e","n","t"," ","T","i","p","s">>
      [] k = "suggest_consultation" ->
           <<"s","u","g","g","e","s","t","_","c","o","n","s","u","l","t",
             "a","t","i","o","n">>
      [] OTHER -> <<k>>

\* json.dumps of a dict of texts
DumpResult(result) ==
    Flatten([i \in 1..Len(result) |-> Spell(result[i].key) \o result[i].val])

\* json.dumps of a dict of readings
DumpData(data) ==
    Flatten([i \in 1..Len(data) |-> <<data[i].key, ToString(data[i].val)>>])

\* json.dumps(context_data, indent=2) of user_health_data[user_id]
JsonDumps(ud) ==
    Flatten([i \in 1..Len(ud.items) |->
        (IF ud.isList THEN <<>> ELSE <<ud.items[i].key>>)
        \o <<"data">> \o DumpData(ud.items[i].val.data)
        \o (IF ud.isList THEN <<>>
            ELSE <<"result">> \o DumpResult(ud.items[i].val.result))
        \o <<"timestamp">> \o ud.items[i].val.timestamp])

---------------------------------------------------------------------------
(* process_agent_query: the system prompt.                                 *)

Bullets(lines) == Flatten([i \in 1..Len(lines) |-> <<"- ", lines[i]>>])

\* rh = user_health_data[user_id]["reproductive_health"]
ReproductiveDigest(rh) ==
    <<"Reproductive Health Summary:", "Mode:">> \o GetOr(rh.result, "mode", <<"None">>)
    \o <<"Recommendations:">> \o Bullets(GetOr(rh.result, "recommendations", <<>>))

VitalSignsDigest(vital_data) ==
    <<"Vital Signs:", "Test date:", DatePart(vital_data.timestamp)>>
    \o Flatten([i \in 1..Len(vital_data.data) |->
            <<"- ", vital_data.data[i].key, ToString(vital_data.data[i].val)>>])
    \o (IF HasKey(vital_data.result, "alerts") /\ Get(vital_data.result, "alerts") # <<>>
        THEN <<"Alerts:">> \o Get(vital_data.result, "alerts") ELSE <<>>)

HealthScoreDigest(score_data) ==
    <<"Health Score:", "Test date:", DatePart(score_data.timestamp)>>
    \o <<"Total Score:">> \o GetOr(score_data.result, "Total Score", <<"Unknown">>)
    \o <<"Health Status:">> \o GetOr(score_data.result, "Health Status", <<"Unknown">>)
    \o (IF HasKey(score_data.result, "Vitals Needing Improvement")
        THEN <<"Vitals Needing Improvement:">>
             \o Get(score_data.result, "Vitals Needing Improvement") ELSE <<>>)
    \o (IF HasKey(score_data.result, "Improvement Tips")
        THEN <<"Improvement Tips:">> \o Get(score_data.result, "Improvement Tips")
        ELSE <<>>)

KidneyDigest(kidney_data) ==
    <<"Kidney Function:", "Test date:", DatePart(kidney_data.timestamp)>>
    \o <<"Overall health:">> \o GetOr(kidney_data.result, "overall_health", <<"Unknown">>)
    \o <<"Confidence level:">>
    \o GetOr(kidney_data.result, "confidence_level", <<"Unknown">>)
    \o (IF GetOr(kidney_data.result, "analysis", <<>>) # <<>>
        THEN <<"Analysis:">> \o Bullets(Get(kidney_data.result, "analysis")) ELSE <<>>)
    \o (IF HasKey(kidney_data.result, "recommendations")
           /\ Get(kidney_data.result, "recommendations") # <<>>
        THEN <<"Recommendations:">> \o Bullets(Get(kidney_data.result, "recommendations"))
        ELSE <<>>)

LipidDigest(lipid_data) ==
    <<"Lipid Profile:", "Test date:", DatePart(lipid_data.timestamp)>>
    \o (IF GetOr(lipid_data.result, "classification", <<>>) # <<>>
        THEN <<"Classification:">> \o Bullets(Get(lipid_data.result, "classification"))
        ELSE <<>>)
    \o <<"ASCVD Risk:">> \o GetOr(lipid_data.result, "ascvd_risk", <<"Unknown">>)
    \o (IF HasKey(lipid_data.result, "recommendations")
           /\ Get(lipid_data.result, "recommendations") # <<>>
        THEN <<"Recommendations:">> \o Bullets(Get(lipid_data.result, "recommendations"))
        ELSE <<>>)

\* A summary whose sections follow the order of the keys in the user's dict,
\* which is the order the assessments were first submitted in.
HealthDataContextBySubmission(hd, user_id) ==
    IF user_id \notin DOMAIN hd THEN <<>>
    ELSE LET items == IF hd[user_id].isList THEN <<>> ELSE hd[user_id].items
             Section(item) ==
                 CASE item.key = "reproductive_health" -> ReproductiveDigest(item.val)
                   [] item.key = "vital_signs" -> VitalSignsDigest(item.val)
                   [] item.key = "health_score" -> HealthScoreDigest(item.val)
                   [] item.key = "kidney_function" -> KidneyDigest(item.val)
                   [] item.key = "lipid_profile" -> LipidDigest(item.val)
                   [] OTHER -> <<>>
         IN  <<"User's Health Data Summary:">>
             \o Flatten([i \in 1..Len(items) |-> Section(items[i])])
             \o <<"IMPORTANT: Always use the above health data.">>

\* health_data_context: "" for a user with no entry in user_health_data
HealthDataContext(hd, user_id) ==
    IF user_id \notin DOMAIN hd THEN <<>>
    ELSE <<"User's Health Data Summary:">>
         \o (IF HasRecord(hd, user_id, "reproductive_health")
             THEN ReproductiveDigest(GetRecord(hd, user_id, "reproductive_health"))
             ELSE <<>>)
         \o (IF HasRecord(hd, user_id, "vital_signs")
             THEN VitalSignsDigest(GetRecord(hd, user_id, "vital_signs")) ELSE <<>>)
         \o (IF HasRecord(hd, user_id, "health_score")
             THEN HealthScoreDigest(GetRecord(hd, user_id, "health_score")) ELSE <<>>)
         \o (IF HasRecord(hd, user_id, "kidney_function")
             THEN KidneyDigest(GetRecord(hd, user_id, "kidney_function")) ELSE <<>>)
         \o (IF HasRecord(hd, user_id, "lipid_profile")
             THEN LipidDigest(GetRecord(hd, user_id, "lipid_profile")) ELSE <<>>)
         \o <<"IMPORTANT: Always use the above health data.">>

SystemPrompt(hd, user_id, context) ==
    <<"You are Dr. Deuce, a certified and authorized medical assistant.">>
    \o (IF context # <<>> THEN <<"Relevant information:">> \o context ELSE <<>>)
    \o (IF HealthDataContext(hd, user_id) # <<>>
        THEN <<"User's health data for reference:">> \o HealthDataContext(hd, user_id)
        ELSE <<>>)

---------------------------------------------------------------------------
(* process_agent_query: intent and reply.                                  *)

\* The personalized recommendations built from the stored records
RecommendationResponse(hd, user_id) ==
    <<"Based on your health data, here are my personalized recommendations:">>
    \o (IF HasRecord(hd, user_id, "health_score")
           /\ GetOr(GetRecord(hd, user_id, "health_score").result,
                    "Improvement Tips", <<>>) # <<>>
        THEN <<"**Health Score Recommendations:**">>
             \o Bullets(Get(GetRecord(hd, user_id, "health_score").result,
                            "Improvement Tips"))
        ELSE <<>>)
    \o (IF HasRecord(hd, user_id, "kidney_function")
           /\ GetOr(GetRecord(hd, user_id, "kidney_function").result,
                    "recommendations", <<>>) # <<>>
        THEN <<"**Kidney Function Recommendations:**">>
             \o Bullets(Get(GetRecord(hd, user_id, "kidney_function").result,
                            "recommendations"))
        ELSE <<>>)
    \o (IF HasRecord(hd, user_id, "lipid_profile")
           /\ GetOr(GetRecord(hd, user_id, "lipid_profile").result,
                    "recommendations", <<>>) # <<>>
        THEN <<"**Lipid Profile Recommendations:**">>
             \o Bullets(Get(GetRecord(hd, user_id, "lipid_profile").result,
                            "recommendations"))
        ELSE <<>>)
    \o (IF HasRecord(hd, user_id, "vital_signs")
           /\ GetOr(GetRecord(hd, user_id, "vital_signs").result, "alerts", <<>>) # <<>>
           /\ Get(GetRecord(hd, user_id, "vital_signs").result, "alerts")
                # <<"No abnormal patterns detected.">>
        THEN <<"**Vital Signs Recommendations:**">>
             \o Bullets(Get(GetRecord(hd, user_id, "vital_signs").result, "alerts"))
        ELSE <<>>)

NoHealthDataPrompt ==
    <<"I don't have any health data for you yet.",
      "You can choose from:", "- Health Score Analysis", "- Vital Signs Monitoring",
      "- Kidney Function Test", "- Lipid Profile Test",
      "Type the name of the test you'd like to perform.">>

\* The chain with the domain rules tried before the recommendation rule,
\* the later rules first.
DetectIntentLastMatch(query_lower, hd, user_id) ==
    IF AnyKeyword(query_lower, ConsultationKeywords) THEN "consultation_intent"
    ELSE IF AnyKeyword(query_lower, LipidProfileKeywords) THEN "lipid_profile_intent"
    ELSE IF AnyKeyword(query_lower, KidneyFunctionKeywords) THEN "kidney_function_intent"
    ELSE IF AnyKeyword(query_lower, VitalSignsKeywords) THEN "vital_signs_intent"
    ELSE IF AnyKeyword(query_lower, HealthScoreKeywords) THEN "health_score_intent"
    ELSE IF AnyKeyword(query_lower, RecommendationKeywords)
    THEN (IF HasAnyData(hd, user_id) THEN "personalized_recommendations"
          ELSE "no_health_data")
    ELSE ""

\* The if/elif chain over query_lower: the tag appended to tools_used, or
\* "" when no keyword matches.
DetectIntent(query_lower, hd, user_id) ==
    IF AnyKeyword(query_lower, RecommendationKeywords)
    THEN (IF HasAnyData(hd, user_id) THEN "personalized_recommendations"
          ELSE "no_health_data")
    ELSE IF AnyKeyword(query_lower, HealthScoreKeywords) THEN "health_score_intent"
    ELSE IF AnyKeyword(query_lower, VitalSignsKeywords) THEN "vital_signs_intent"
    ELSE IF AnyKeyword(query_lower, KidneyFunctionKeywords) THEN "kidney_function_intent"
    ELSE IF AnyKeyword(query_lower, LipidProfileKeywords) THEN "lipid_profile_intent"
    ELSE IF AnyKeyword(query_lower, ConsultationKeywords) THEN "consultation_intent"
    ELSE ""

\* tool_response: the text appended to the model's reply for an intent
ToolResponse(intent) ==
    CASE intent = "no_health_data" -> NoHealthDataPrompt
      [] intent = "health_score_intent" ->
           <<"Would you like to analyze your health score? Type 'yes' to begin.">>
      [] intent = "vital_signs_intent" ->
           <<"Would you like to enter your vital signs for monitoring? Type 'yes' to begin.">>
      [] intent = "kidney_function_intent" ->
           <<"Would you like to analyze your kidney function? Type 'yes' to begin.">>
      [] intent = "lipid_profile_intent" ->
           <<"Would you like to analyze your lipid profile? Type 'yes' to begin.">>
      [] intent = "consultation_intent" ->
           <<"Would you like to start a health consultation? Type 'yes' to begin.">>
      [] OTHER -> <<>>

---------------------------------------------------------------------------
(* The chat history of a user.                                             *)

\* A message of chat_histories.  `session` is not a field of the code's
\* message: it records the session_id of the request that appended it
\* (NoSession for the assessment endpoints, which receive none).
Message(role, content, session) ==
    [role |-> role, content |-> content, session |-> session]

NoSession == 0

\* chat_histories[user_id] = h
SetHistory(ch, user_id, h) ==
    IF user_id \in DOMAIN ch THEN [ch EXCEPT ![user_id] = h] ELSE ch @@ (user_id :> h)

\* h[-(MAX_HISTORY_LENGTH-1):]
Tail9(h) ==
    IF Len(h) <= MAX_HISTORY_LENGTH - 1 THEN h
    ELSE SubSeq(h, Len(h) - (MAX_HISTORY_LENGTH - 1) + 1, Len(h))

\* A truncation that keeps the most recent messages only.
TruncateTailOnly(h) ==
    IF Len(h) > MAX_HISTORY_LENGTH THEN Tail9(h) ELSE h

\* A truncation that keeps the system message and the oldest messages.
TruncateKeepOldest(h) ==
    IF Len(h) > MAX_HISTORY_LENGTH THEN SubSeq(h, 1, MAX_HISTORY_LENGTH) ELSE h

\* "Keep chat history within limit": the system message and the most recent
\* messages, once the list is longer than MAX_HISTORY_LENGTH.
Truncate(h) ==
    IF Len(h) > MAX_HISTORY_LENGTH THEN <<h[1]>> \o Tail9(h) ELSE h

\* A history whose system message is written once, on the first interaction,
\* and left alone afterwards.
KeepSystemPrompt(ch, user_id, system_prompt, session) ==
    IF user_id \notin DOMAIN ch
    THEN <<Message("system", system_prompt, session)>>
    ELSE ch[user_id]

\* A history whose system message grows: each turn's prompt is appended to
\* the content that is there.
AppendToSystemPrompt(ch, user_id, system_prompt, session) ==
    IF user_id \notin DOMAIN ch
    THEN <<Message("system", system_prompt, session)>>
    ELSE [ch[user_id] EXCEPT ![1].content = @ \o system_prompt]

\* "Initialize chat history if first interaction", else replace the content
\* of the system message in place.
WithSystemPrompt(ch, user_id, system_prompt, session) ==
    IF user_id \notin DOMAIN ch
    THEN <<Message("system", system_prompt, session)>>
    ELSE [ch[user_id] EXCEPT ![1].content = system_prompt]

\* "Update chat history if user exists": the assessment endpoints append one
\* user message and one assistant message, and only to an existing history.
AppendExchange(ch, user_id, user_text, assistant_text) ==
    IF user_id \in DOMAIN ch
    THEN [ch EXCEPT ![user_id] =
            ch[user_id] \o <<Message("user", user_text, NoSession),
                             Message("assistant", assistant_text, NoSession)>>]
    ELSE ch

---------------------------------------------------------------------------
(* retrieve_context.                                                       *)

\* The vector store of a model: whether vector_indexes and vector_docs have
\* the model, whether embedding or searching raises, and the text of the
\* documents a search finds.
VectorStore(loaded, raises, docs) == [loaded |-> loaded, raises |-> raises, docs |-> docs]

RetrievalFails(store) == ~store.loaded \/ store.raises

\* A retrieval that hands the text of its error to the caller.
RetrieveOrReport(store) ==
    IF ~store.loaded THEN <<"Vector index or docs not found">>
    ELSE IF store.raises THEN <<"Error retrieving context">>
    ELSE store.docs

\* retrieve_context: "" when the model has no index, "" when anything
\* raises, else the documents found joined by " ".
retrieve_context(store) ==
    IF ~store.loaded THEN <<>>
    ELSE IF store.raises THEN <<>>
    ELSE store.docs

---------------------------------------------------------------------------
(* POST /query.                                                            *)

\* The outcome of ollama.chat: a reply, or an exception.
LLMReply(text) == [ok |-> TRUE, text |-> text]
LLMFailure == [ok |-> FALSE, text |-> <<>>]

\* What a handler leaves behind: the stores, and what it returns.
Outcome(ch, hd, error, response, tools_used, llm_called, llm_messages, query) ==
    [chat_histories |-> ch, user_health_data |-> hd, error |-> error,
     response |-> response, tools_used |-> tools_used,
     llm_called |-> llm_called, llm_messages |-> llm_messages, query |-> query]

\* model_response after the intent chain: the recommendations replace the
\* model's text, any other intent appends its tool_response to it.
ModelResponse(intent, llm_text, hd, user_id) ==
    IF intent = "personalized_recommendations"
    THEN RecommendationResponse(hd, user_id)
    ELSE llm_text \o ToolResponse(intent)

\* A handler that drops the user's entry of the record store once it has
\* read it.
ConsumeRecords(ch, hd, query, user_id, session, context, llm) ==
    Outcome(ch, [u \in DOMAIN hd \ {user_id} |-> hd[u]], TRUE,
            <<"Failed to process agent query">>, <<>>, FALSE, <<>>, query)

\* process_agent_query.  The history is written before ollama.chat is
\* called; an exception of the call leaves it written.
process_agent_query(ch, hd, query, user_id, session, context, llm) ==
    LET system_prompt == SystemPrompt(hd, user_id, context)
        h0 == WithSystemPrompt(ch, user_id, system_prompt, session)
        h1 == Append(h0, Message("user", query, session))
        h2 == Truncate(h1)
        intent == DetectIntent(Lower(query), hd, user_id)
        model_response == ModelResponse(intent, llm.text, hd, user_id)
        h3 == Append(h2, Message("assistant", model_response, session))
    IN  IF ~llm.ok
        THEN Outcome(SetHistory(ch, user_id, h2), hd, TRUE,
                     <<"Failed to process agent query">>, <<>>, TRUE, h2, query)
        ELSE Outcome(SetHistory(ch, user_id, h3), hd, FALSE, model_response,
                     IF intent = "" THEN <<>> ELSE <<intent>>, TRUE, h2, query)

\* is_follow_up = query.strip().lower() in [...]
IsFollowUp(query) == InList(Lower(Strip(query)), FollowUpPhrases)

\* The query a follow-up is rewritten to
FollowUpQuery(ud) ==
    <<"I would like deeper insight based on my recent reproductive health data.",
      "Here is my data:">> \o JsonDumps(ud)

\* get_response.  chat.session_id is not read.
get_response(ch, hd, chat, context, llm) ==
    IF chat.model \notin MODELS
    THEN Outcome(ch, hd, TRUE, <<"Invalid model selection.">>, <<>>, FALSE, <<>>,
                 chat.query)
    ELSE IF IsFollowUp(chat.query) /\ ~HasAnyData(hd, chat.user_id)
    THEN Outcome(ch, hd, TRUE,
                 <<"No prior health data found. Please complete an assessment first.">>,
                 <<>>, FALSE, <<>>, chat.query)
    ELSE process_agent_query(ch, hd,
            IF IsFollowUp(chat.query) THEN FollowUpQuery(hd[chat.user_id])
            ELSE chat.query,
            chat.user_id, chat.session_id, context, llm)

\* GET /chat-history: session_id is accepted and not used.
get_chat_history(ch, hd, user_id, session_id) ==
    [messages |-> IF user_id \in DOMAIN ch THEN ch[user_id] ELSE <<>>,
     health_data |-> IF user_id \in DOMAIN hd THEN hd[user_id] ELSE DictData(<<>>)]

\* GET /user-health-data/{user_id}: a message when there is nothing to
\* return, else the record of data_type, or the user's whole entry when no
\* data_type is given ("").
get_user_health_data(hd, user_id, data_type) ==
    IF user_id \notin DOMAIN hd
    THEN [found |-> FALSE, body |-> <<"No health data found for this user">>]
    ELSE IF data_type # ""
    THEN IF ~HasRecord(hd, user_id, data_type)
         THEN [found |-> FALSE, body |-> <<"No", data_type, "data found for this user">>]
         ELSE [found |-> TRUE, body |-> GetRecord(hd, user_id, data_type)]
    ELSE [found |-> TRUE, body |-> hd[user_id]]

---------------------------------------------------------------------------
(* The assessment endpoints.                                               *)

\* What an endpoint returns when it caught an exception or refused the
\* input: the stores as they were.
Refused(ch, hd, why) == Outcome(ch, hd, TRUE, why, <<>>, FALSE, <<>>, <<>>)

Stored(ch, hd, result) == Outcome(ch, hd, FALSE, result, <<>>, FALSE, <<>>, <<>>)

\* user_health_data[user_id][kind] = record raises TypeError when
\* user_health_data[user_id] is a list.
StoreRaises(hd, user_id) == user_id \in DOMAIN hd /\ hd[user_id].isList

\* A store that writes a record in two parts: the entry first, without its
\* result.
StorePartialRecord(hd, user_id, kind, record) ==
    LET partial == [record EXCEPT !.result = EmptyDict]
    IN  IF user_id \in DOMAIN hd
        THEN [hd EXCEPT ![user_id].items = Put(hd[user_id].items, kind, partial)]
        ELSE hd @@ (user_id :> DictData(Put(EmptyDict, kind, partial)))

\* if user_id not in user_health_data: user_health_data[user_id] = {}
\* user_health_data[user_id][kind] = record
StoreRecord(hd, user_id, kind, record) ==
    IF user_id \in DOMAIN hd
    THEN [hd EXCEPT ![user_id].items = Put(hd[user_id].items, kind, record)]
    ELSE hd @@ (user_id :> DictData(Put(EmptyDict, kind, record)))

\* user_health_data[user_id].append(...) raises AttributeError on a dict.
AppendRaises(hd, user_id) == user_id \in DOMAIN hd /\ ~hd[user_id].isList

\* if user_id not in user_health_data: user_health_data[user_id] = []
\* user_health_data[user_id].append({**data, "timestamp": timestamp})
AppendReading(hd, user_id, data, timestamp) ==
    LET entry == F("", Record(data, EmptyDict, timestamp))
    IN  IF user_id \in DOMAIN hd
        THEN [hd EXCEPT ![user_id].items = Append(hd[user_id].items, entry)]
        ELSE hd @@ (user_id :> ListData(<<entry>>))

\* POST /vital-signs
process_vital_signs_endpoint(ch, hd, user_id, vital_signs, timestamp) ==
    LET result == process_vital_signs(vital_signs)
    IN  IF StoreRaises(hd, user_id)
        THEN Refused(ch, hd, <<"Error processing vital signs">>)
        ELSE Stored(
               AppendExchange(ch, user_id,
                   <<"My vital signs are:">> \o DumpData(vital_signs),
                   <<"I've analyzed your vital signs.">> \o Get(result, "analysis")
                   \o (IF Get(result, "alerts") # <<>>
                       THEN <<"Alerts:">> \o Get(result, "alerts") ELSE <<>>)),
               StoreRecord(hd, user_id, "vital_signs",
                           Record(vital_signs, result, timestamp)),
               DumpResult(result))

\* POST /health-score
analyze_health_score_endpoint(ch, hd, user_id, health_data, timestamp) ==
    LET result == analyze_health_score(health_data)
    IN  IF health_data = EmptyDict
        THEN Refused(ch, hd, <<"No health data provided">>)
        ELSE IF StoreRaises(hd, user_id)
        THEN Refused(ch, hd, <<"Error analyzing health score">>)
        ELSE Stored(
               AppendExchange(ch, user_id, <<"Please analyze my health score.">>,
                   <<"I've analyzed your health score.">> \o DumpResult(result)),
               StoreRecord(hd, user_id, "health_score",
                           Record(health_data, result, timestamp)),
               DumpResult(result))

\* POST /kidney-function
analyze_kidney_function_endpoint(ch, hd, user_id, kidney_data, timestamp) ==
    LET result == kidney_function_analysis_tool(kidney_data)
    IN  IF kidney_data = EmptyDict
        THEN Refused(ch, hd, <<"No kidney data provided">>)
        ELSE IF KidneyToolRaises(kidney_data) \/ StoreRaises(hd, user_id)
        THEN Refused(ch, hd, <<"Error analyzing kidney function">>)
        ELSE Stored(
               AppendExchange(ch, user_id, <<"Please analyze my kidney function.">>,
                   <<"Kidney Function Analysis">> \o Bullets(Get(result, "analysis"))
                   \o <<"Overall Health:">> \o GetOr(result, "overall_health", <<"Unknown">>)
                   \o <<"Confidence Level:">>
                   \o GetOr(result, "confidence_level", <<"Unknown">>)
                   \o (IF GetOr(result, "missing_parameters", <<>>) # <<>>
                       THEN <<"Missing Parameters:">> \o Get(result, "missing_parameters")
                       ELSE <<>>)
                   \o (IF GetOr(result, "recommendations", <<>>) # <<>>
                       THEN <<"Recommendations:">>
                            \o Bullets(Get(result, "recommendations"))
                       ELSE <<>>)),
               StoreRecord(hd, user_id, "kidney_function",
                           Record(kidney_data, result, timestamp)),
               DumpResult(result))

\* POST /lipid-profile
analyze_lipid_profile_endpoint(ch, hd, user_id, lipid_data, timestamp) ==
    LET result == analyze_lipid_profile(lipid_data)
    IN  IF lipid_data = EmptyDict
        THEN Refused(ch, hd, <<"No lipid data provided.">>)
        ELSE IF StoreRaises(hd, user_id)
        THEN Refused(ch, hd, <<"Error analyzing lipid profile">>)
        ELSE Stored(
               AppendExchange(ch, user_id, <<"Please analyze my lipid profile.">>,
                   Get(result, "classification")
                   \o <<"**ASCVD Risk Level**:">> \o Get(result, "ascvd_risk")
                   \o <<"**Recommendations:**">>
                   \o Bullets(Get(result, "recommendations"))),
               StoreRecord(hd, user_id, "lipid_profile",
                           Record(lipid_data, result, timestamp)),
               DumpResult(result))

\* POST /liver-function/manual
analyze_liver_manual(ch, hd, user_id, lft_data, timestamp) ==
    LET result == analyze_liver_function(lft_data)
    IN  IF StoreRaises(hd, user_id)
        THEN Refused(ch, hd, <<"list indices must be integers or slices, not str">>)
        ELSE Stored(
               AppendExchange(ch, user_id, <<"Please assess my liver function.">>,
                   Get(result, "parameter_status")
                   \o <<"**Risk Level**:">> \o Get(result, "risk_level")
                   \o <<"**Confidence Level**:">> \o Get(result, "confidence_level")
                   \o <<"**Recommendations:**">>
                   \o Bullets(Get(result, "recommendations"))),
               StoreRecord(hd, user_id, "liver_function",
                           Record(lft_data, result, timestamp)),
               DumpResult(result))

\* f"reproductive_{mode}"
ReproductiveKey(mode) ==
    CASE mode = "cycle" -> "reproductive_cycle"
      [] mode = "lifestyle" -> "reproductive_lifestyle"
      [] mode = "pregnancy" -> "reproductive_pregnancy"
      [] mode = "postpartum" -> "reproductive_postpartum"

\* POST /reproductive-health
reproductive_health_endpoint(ch, hd, user_id, mode, payload, timestamp) ==
    LET result == run_reproductive_agent(mode, payload)
    IN  IF StoreRaises(hd, user_id)
        THEN Refused(ch, hd, <<"Internal Server Error">>)
        ELSE Stored(
               AppendExchange(ch, user_id,
                   <<"I want to check my reproductive health", mode>>,
                   GetOr(result, "chat_prompt", <<>>)),
               StoreRecord(hd, user_id, ReproductiveKey(mode),
                           Record(payload, result, timestamp)),
               DumpResult(result))

\* POST /track-progress and POST /weekly-digest: both append the reading to
\* user_health_data[user_id] as to a list, and leave the chat history alone.
track_vital_progress(ch, hd, user_id, vital_signs, timestamp) ==
    IF AppendRaises(hd, user_id)
    THEN Refused(ch, hd, <<"'dict' object has no attribute 'append'">>)
    ELSE Stored(ch, AppendReading(hd, user_id, vital_signs, timestamp),
                <<"monthly summary">>)

summarize_weekly_vitals(ch, hd, user_id, vital_signs, timestamp) ==
    IF AppendRaises(hd, user_id)
    THEN Refused(ch, hd, <<"'dict' object has no attribute 'append'">>)
    ELSE Stored(ch, AppendReading(hd, user_id, vital_signs, timestamp),
                <<"weekly digest">>)

---------------------------------------------------------------------------
(* The client (agent_app.py): one browser tab per user.  The tab's         *)
(* message_log and chat_title are display only and are not modelled; the   *)
(* reply a turn shows is kept in `turn`.  The server is taken to be        *)
(* reachable (no requests.RequestException).                               *)

Yes == <<"y","e","s">>

ConfirmationKinds ==
    {"health_score", "vital_signs", "kidney_function", "lipid_profile",
     "health_consultation"}

\* "SESSION STATE INITIALIZATION"
InitialSessionState ==
    [session_id |-> 1,
     waiting_for_confirmation |-> FALSE,
     confirmation_type |-> "None",
     waiting_for_vitals |-> FALSE,
     waiting_for_health_score |-> FALSE,
     waiting_for_kidney_function |-> FALSE,
     waiting_for_lipid_profile |-> FALSE,
     waiting_for_health_consultation |-> FALSE]

\* A confirmation handler that leaves st.session_state as it is.
KeepSessionState(ss, confirmation_type) == ss

\* A confirmation handler that lowers waiting_for_confirmation and forgets to
\* reset confirmation_type.
LowerFlagOnly(ss, confirmation_type) ==
    [ss EXCEPT !.waiting_for_confirmation = FALSE]

\* The effects of handle_confirmation on st.session_state
handle_confirmation(ss, confirmation_type) ==
    CASE confirmation_type = "vital_signs" ->
           [ss EXCEPT !.waiting_for_vitals = TRUE,
                      !.waiting_for_confirmation = FALSE, !.confirmation_type = "None"]
      [] confirmation_type = "health_score" ->
           [ss EXCEPT !.waiting_for_health_score = TRUE,
                      !.waiting_for_confirmation = FALSE, !.confirmation_type = "None"]
      [] confirmation_type = "kidney_function" ->
           [ss EXCEPT !.waiting_for_kidney_function = TRUE,
                      !.waiting_for_confirmation = FALSE, !.confirmation_type = "None"]
      [] confirmation_type = "lipid_profile" ->
           [ss EXCEPT !.waiting_for_lipid_profile = TRUE,
                      !.waiting_for_confirmation = FALSE, !.confirmation_type = "None"]
      [] confirmation_type = "health_consultation" ->
           [ss EXCEPT !.waiting_for_confirmation = FALSE, !.confirmation_type = "None"]
      [] OTHER -> ss

\* The text handle_confirmation returns
ConfirmationReply(confirmation_type) ==
    CASE confirmation_type = "vital_signs" -> <<"Please enter your vital signs below:">>
      [] confirmation_type = "health_score" ->
           <<"Please enter your health data below for analysis:">>
      [] confirmation_type = "kidney_function" ->
           <<"Please enter your kidney function test results below:">>
      [] confirmation_type = "lipid_profile" ->
           <<"Please enter your lipid profile test results below:">>
      [] confirmation_type = "health_consultation" ->
           <<"Thank you for confirming. I've generated a booking link.">>
      [] OTHER -> <<"I'm not sure what you're confirming. How can I help you?">>

\* query_agent, "Check for tool intents": the if/elif chain over tools_used
AfterTools(ss, tools_used) ==
    IF InList("health_score_intent", tools_used)
    THEN [ss EXCEPT !.waiting_for_confirmation = TRUE,
                    !.confirmation_type = "health_score"]
    ELSE IF InList("vital_signs_intent", tools_used)
    THEN [ss EXCEPT !.waiting_for_confirmation = TRUE,
                    !.confirmation_type = "vital_signs"]
    ELSE IF InList("kidney_function_intent", tools_used)
    THEN [ss EXCEPT !.waiting_for_confirmation = TRUE,
                    !.confirmation_type = "kidney_function"]
    ELSE IF InList("lipid_profile_intent", tools_used)
    THEN [ss EXCEPT !.waiting_for_confirmation = TRUE,
                    !.confirmation_type = "lipid_profile"]
    ELSE ss

\* query_agent: the session state after the server's answer `out`
query_agent(ss, out) == IF out.error THEN ss ELSE AfterTools(ss, out.tools_used)

\* query_agent: the text it returns
QueryAgentReply(out) ==
    IF out.error THEN <<"Error:">> \o out.response ELSE out.response

\* The confirmation test of the chat input
IsConfirmation(ss, user_query) ==
    ss.waiting_for_confirmation /\ Lower(user_query) = Yes

\* "New Chat" button
new_chat(ss) ==
    [ss EXCEPT !.session_id = ss.session_id + 1,
               !.waiting_for_vitals = FALSE,
               !.waiting_for_health_score = FALSE,
               !.waiting_for_kidney_function = FALSE,
               !.waiting_for_lipid_profile = FALSE,
               !.waiting_for_confirmation = FALSE,
               !.waiting_for_health_consultation = FALSE,
               !.confirmation_type = "None"]

\* Quick action buttons
quick_action(ss, kind) ==
    [ss EXCEPT !.waiting_for_confirmation = TRUE, !.confirmation_type = kind]

QuickActionPrompt(kind) ==
    CASE kind = "health_score" ->
           <<"Would you like to analyze your health score? Type 'yes' to begin.">>
      [] kind = "vital_signs" ->
           <<"Would you like to enter your vital signs for monitoring? Type 'yes' to begin.">>
      [] kind = "kidney_function" ->
           <<"Would you like to analyze your kidney function? Type 'yes' to begin.">>
      [] kind = "lipid_profile" ->
           <<"Would you like to analyze your lipid profile? Type 'yes' to begin.">>
      [] kind = "health_consultation" ->
           <<"Would you like to book a health consultation? Type 'yes' to confirm.">>

\* The four forms: which flag shows the form
FormKinds == {"vital_signs", "health_score", "kidney_function", "lipid_profile"}

FormShown(ss, kind) ==
    CASE kind = "vital_signs" -> ss.waiting_for_vitals
      [] kind = "health_score" -> ss.waiting_for_health_score
      [] kind = "kidney_function" -> ss.waiting_for_kidney_function
      [] kind = "lipid_profile" -> ss.waiting_for_lipid_profile

\* After a form is submitted its flag is cleared, whatever the server said
FormClosed(ss, kind) ==
    CASE kind = "vital_signs" -> [ss EXCEPT !.waiting_for_vitals = FALSE]
      [] kind = "health_score" -> [ss EXCEPT !.waiting_for_health_score = FALSE]
      [] kind = "kidney_function" -> [ss EXCEPT !.waiting_for_kidney_function = FALSE]
      [] kind = "lipid_profile" -> [ss EXCEPT !.waiting_for_lipid_profile = FALSE]

\* The endpoint a form posts to
SubmitEndpoint(ch, hd, user_id, kind, data, timestamp) ==
    CASE kind = "vital_signs" ->
           process_vital_signs_endpoint(ch, hd, user_id, data, timestamp)
      [] kind = "health_score" ->
           analyze_health_score_endpoint(ch, hd, user_id, data, timestamp)
      [] kind = "kidney_function" ->
           analyze_kidney_function_endpoint(ch, hd, user_id, data, timestamp)
      [] kind = "lipid_profile" ->
           analyze_lipid_profile_endpoint(ch, hd, user_id, data, timestamp)

---------------------------------------------------------------------------
(* Inputs.                                                                 *)

Q_hello == <<"h","e","l","l","o">>
Q_no_thanks == <<"n","o"," ","t","h","a","n","k","s">>
Q_check_vitals == <<"c","h","e","c","k"," ","v","i","t","a","l","s">>
Q_health_score == <<"h","e","a","l","t","h"," ","s","c","o","r","e">>
Q_kidney_test == <<"k","i","d","n","e","y"," ","t","e","s","t">>
Q_lipid_test == <<"l","i","p","i","d"," ","t","e","s","t">>
Q_consult == <<"c","o","n","s","u","l","t">>
Q_advice == <<"a","d","v","i","c","e">>

Queries ==
    {Yes, Q_no_thanks, Q_check_vitals, Q_health_score, Q_kidney_test,
     Q_lipid_test, Q_consult, Q_advice}

\* what retrieve_context returns: "" on any failure, else the document text
Contexts == {<<>>, <<"retrieved document">>}

\* the vector store is missing or the search fails: always ""
NoContext == {<<>>}

LLMOutcomes == {LLMReply(<<"model reply">>), LLMFailure}

\* datetime.now().isoformat()
Timestamps == {<<"2025-01-01", "09:00:00">>}

FormInputs(kind) ==
    CASE kind = "vital_signs" -> {<<F("Temperature", 37)>>, <<F("Temperature", 39)>>}
      [] kind = "health_score" -> {<<F("Glucose", 90)>>, <<F("Glucose", 110)>>}
      [] kind = "kidney_function" -> {<<F("eGFR", 95)>>, <<F("eGFR", 50)>>}
      [] kind = "lipid_profile" -> {<<F("ldl", 100)>>, <<F("ldl", 170)>>}

LiverInputs == {<<F("ALT", 30)>>, <<F("ALT", 80)>>}

ReproductiveModes == {"cycle"}

ReproductivePayloads == {<<F("cycle_length", 28)>>}

Readings == {<<F("Temperature", 37)>>}

---------------------------------------------------------------------------
(* State machine.                                                          *)

NoRequest == Outcome(<<>>, <<>>, FALSE, <<>>, <<>>, FALSE, <<>>, <<>>)

\* The record of the last event: what was asked, and what came back.
\* `dropped` counts the messages the history lost to the truncation of a
\* /query request: the history before, plus the user message, minus what
\* was sent to the model.  `context` is what retrieve_context returned to a
\* /query request that reached process_agent_query, and `repeated` tells that
\* the event before was such a request of the same user with the same context;
\* `retrieval` tells how retrieve_context ended: "failed", "ok", or "none"
\* when it was not called.
Turn(op, user_id, session_id, input, out, reply) ==
    [op |-> op, user_id |-> user_id, session_id |-> session_id, input |-> input,
     error |-> out.error, reply |-> reply, tools_used |-> out.tools_used,
     llm_called |-> out.llm_called, llm_messages |-> out.llm_messages,
     query |-> out.query,
     dropped |-> IF out.llm_called /\ user_id \in DOMAIN chat_histories
                 THEN Len(chat_histories[user_id]) + 1 - Len(out.llm_messages)
                 ELSE 0,
     context |-> <<>>, repeated |-> FALSE, retrieval |-> "none"]

Init ==
    /\ chat_histories = <<>>
    /\ user_health_data = <<>>
    /\ session_state = [u \in Users |-> InitialSessionState]
    /\ turn = Turn("init", "", 0, <<>>, NoRequest, <<>>)
    /\ steps = 0
    /\ in_flight = <<>>

\* The user types "yes" while a confirmation is pending: handled in the
\* client, no request is sent.
Confirm(u, user_query) ==
    LET ss == session_state[u]
    IN  /\ IsConfirmation(ss, user_query)
        /\ session_state' =
             [session_state EXCEPT ![u] = handle_confirmation(ss, ss.confirmation_type)]
        /\ turn' = Turn("confirm", u, ss.session_id, user_query, NoRequest,
                        ConfirmationReply(ss.confirmation_type))
        /\ UNCHANGED <<chat_histories, user_health_data, in_flight>>

\* Any other chat input: query_agent posts it to /query, with the vector
\* store of the model as it is.
ChatTurn(u, user_query, model, store, llm) ==
    LET ss == session_state[u]
        context == retrieve_context(store)
        out == get_response(chat_histories, user_health_data,
                   [session_id |-> ss.session_id, user_id |-> u,
                    query |-> user_query, model |-> model], context, llm)
    IN  /\ ~IsConfirmation(ss, user_query)
        /\ chat_histories' = out.chat_histories
        /\ user_health_data' = out.user_health_data
        /\ session_state' = [session_state EXCEPT ![u] = query_agent(ss, out)]
        /\ turn' = [Turn("chat", u, ss.session_id, user_query, out, QueryAgentReply(out))
                      EXCEPT !.context = IF out.llm_called THEN context ELSE <<>>,
                             !.repeated = /\ out.llm_called
                                          /\ turn.op = "chat" /\ turn.llm_called
                                          /\ turn.user_id = u /\ turn.context = context,
                             !.retrieval = IF ~out.llm_called THEN "none"
                                           ELSE IF RetrievalFails(store) THEN "failed"
                                           ELSE "ok"]
        /\ UNCHANGED in_flight

\* A chat input for which retrieve_context returns context.
ChatInput(u, user_query, model, context, llm) ==
    ChatTurn(u, user_query, model, VectorStore(TRUE, FALSE, context), llm)

QuickAction(u, kind) ==
    /\ session_state' = [session_state EXCEPT ![u] = quick_action(session_state[u], kind)]
    /\ turn' = Turn("quick_action", u, session_state[u].session_id, <<kind>>,
                    NoRequest, QuickActionPrompt(kind))
    /\ UNCHANGED <<chat_histories, user_health_data, in_flight>>

NewChat(u) ==
    /\ session_state[u].session_id <= MaxNewChats
    /\ session_state' = [session_state EXCEPT ![u] = new_chat(session_state[u])]
    /\ turn' = Turn("new_chat", u, session_state[u].session_id + 1, <<>>, NoRequest, <<>>)
    /\ UNCHANGED <<chat_histories, user_health_data, in_flight>>

\* One of the four forms is submitted.
SubmitForm(u, kind, data, timestamp) ==
    LET ss == session_state[u]
        out == SubmitEndpoint(chat_histories, user_health_data, u, kind, data, timestamp)
    IN  /\ FormShown(ss, kind)
        /\ chat_histories' = out.chat_histories
        /\ user_health_data' = out.user_health_data
        /\ session_state' = [session_state EXCEPT ![u] = FormClosed(ss, kind)]
        /\ turn' = Turn("form", u, ss.session_id, <<kind>>, out,
                        IF out.error THEN <<"Error:">> \o out.response ELSE out.response)
        /\ UNCHANGED in_flight

\* A request to an assessment endpoint that has no form in the client.
Post(u, endpoint, out) ==
    /\ chat_histories' = out.chat_histories
    /\ user_health_data' = out.user_health_data
    /\ turn' = Turn("post", u, NoSession, <<endpoint>>, out, out.response)
    /\ UNCHANGED <<session_state, in_flight>>

PostVitalSigns(u, data, timestamp) ==
    Post(u, "vital_signs",
         process_vital_signs_endpoint(chat_histories, user_health_data, u, data, timestamp))

PostLiverFunction(u, data, timestamp) ==
    Post(u, "liver_function",
         analyze_liver_manual(chat_histories, user_health_data, u, data, timestamp))

PostReproductiveHealth(u, mode, payload, timestamp) ==
    Post(u, ReproductiveKey(mode),
         reproductive_health_endpoint(chat_histories, user_health_data, u, mode,
                                      payload, timestamp))

PostTrackProgress(u, data, timestamp) ==
    Post(u, "track_progress",
         track_vital_progress(chat_histories, user_health_data, u, data, timestamp))

PostWeeklyDigest(u, data, timestamp) ==
    Post(u, "weekly_digest",
         summarize_weekly_vitals(chat_histories, user_health_data, u, data, timestamp))

PostHealthScore(u, data, timestamp) ==
    Post(u, "health_score",
         analyze_health_score_endpoint(chat_histories, user_health_data, u, data, timestamp))

PostKidneyFunction(u, data, timestamp) ==
    Post(u, "kidney_function",
         analyze_kidney_function_endpoint(chat_histories, user_health_data, u, data, timestamp))

PostLipidProfile(u, data, timestamp) ==
    Post(u, "lipid_profile",
         analyze_lipid_profile_endpoint(chat_histories, user_health_data, u, data, timestamp))

\* Each handled event uses one unit of the run's budget.
Tick(budget) == steps < budget /\ steps' = steps + 1

---------------------------------------------------------------------------
(* The dialogue: chat input, quick-action buttons, confirmations, forms.   *)

Next ==
    \/ \E u \in Users, q \in Queries : Tick(MaxSteps) /\ Confirm(u, q)
    \/ \E u \in Users, q \in Queries, m \in MODELS, c \in NoContext, l \in LLMOutcomes :
          Tick(MaxSteps) /\ ChatInput(u, q, m, c, l)
    \/ \E u \in Users, k \in ConfirmationKinds : Tick(MaxSteps) /\ QuickAction(u, k)
    \/ \E u \in Users, k \in FormKinds, t \in Timestamps :
          \E d \in FormInputs(k) : Tick(MaxSteps) /\ SubmitForm(u, k, d, t)

Spec == Init /\ [][Next]_vars

---------------------------------------------------------------------------
(* The records: assessments posted to the API, then chat about them.       *)

RecordQueries == {Q_advice, Q_hello}

NextRecords ==
    \/ \E u \in Users, q \in RecordQueries, m \in MODELS, c \in Contexts, l \in LLMOutcomes :
          Tick(MaxRequests) /\ ChatInput(u, q, m, c, l)
    \/ \E u \in Users, d \in FormInputs("vital_signs"), t \in Timestamps :
          Tick(MaxRequests) /\ PostVitalSigns(u, d, t)
    \/ \E u \in Users, d \in FormInputs("health_score"), t \in Timestamps :
          Tick(MaxRequests) /\ PostHealthScore(u, d, t)
    \/ \E u \in Users, d \in FormInputs("kidney_function"), t \in Timestamps :
          Tick(MaxRequests) /\ PostKidneyFunction(u, d, t)
    \/ \E u \in Users, d \in FormInputs("lipid_profile"), t \in Timestamps :
          Tick(MaxRequests) /\ PostLipidProfile(u, d, t)
    \/ \E u \in Users, d \in LiverInputs, t \in Timestamps :
          Tick(MaxRequests) /\ PostLiverFunction(u, d, t)
    \/ \E u \in Users, m \in ReproductiveModes, d \in ReproductivePayloads,
          t \in Timestamps : Tick(MaxRequests) /\ PostReproductiveHealth(u, m, d, t)
    \/ \E u \in Users, d \in Readings, t \in Timestamps :
          Tick(MaxRequests) /\ PostTrackProgress(u, d, t)
    \/ \E u \in Users, d \in Readings, t \in Timestamps :
          Tick(MaxRequests) /\ PostWeeklyDigest(u, d, t)

SpecRecords == Init /\ [][NextRecords]_vars

---------------------------------------------------------------------------
(* The window: one long conversation, across "New Chat" clicks.            *)

WindowQueries == {Q_hello}

NextWindow ==
    \/ \E u \in Users, q \in WindowQueries, m \in MODELS, c \in Contexts, l \in LLMOutcomes :
          Tick(MaxTurns) /\ ChatInput(u, q, m, c, l)
    \/ \E u \in Users : Tick(MaxTurns) /\ NewChat(u)
    \/ \E u \in Users, d \in Readings, t \in Timestamps :
          Tick(MaxTurns) /\ PostVitalSigns(u, d, t)

SpecWindow == Init /\ [][NextWindow]_vars

---------------------------------------------------------------------------
(* Properties.                                                             *)

\* The kind of sub-flow an intent tag of tools_used asks to confirm.
IntentKind(tools_used) ==
    IF InList("health_score_intent", tools_used) THEN "health_score"
    ELSE IF InList("vital_signs_intent", tools_used) THEN "vital_signs"
    ELSE IF InList("kidney_function_intent", tools_used) THEN "kidney_function"
    ELSE IF InList("lipid_profile_intent", tools_used) THEN "lipid_profile"
    ELSE IF InList("consultation_intent", tools_used) THEN "health_consultation"
    ELSE "None"

\* The kind the event recorded in t asks to confirm: the button clicked, or
\* the intent detected on a chat turn; "None" for any other event.
TriggeredKind(t) ==
    IF t.op = "quick_action" THEN t.input[1]
    ELSE IF t.op = "chat" /\ ~t.error THEN IntentKind(t.tools_used)
    ELSE "None"

Idle(ss) == ~ss.waiting_for_confirmation /\ ss.confirmation_type = "None"

Awaiting(ss, kind) == ss.waiting_for_confirmation /\ ss.confirmation_type = kind

\* every token of text occurs in reply
Includes(reply, text) == \A i \in 1..Len(text) : InList(text[i], reply)

\* C1: a /query turn whose model call fails leaves the user's chat history
\* exactly as it was before the turn (the user message is not appended).
C1_FailedTurnLeavesHistory ==
    [][(turn'.op = "chat" /\ turn'.llm_called /\ turn'.error)
         => chat_histories' = chat_histories]_vars

\* C2: after every completed turn (a chat turn or an assessment submission)
\* a chat history holds at most MAX_HISTORY_LENGTH messages.
C2_HistoryWithinLimit ==
    \A u \in DOMAIN chat_histories : Len(chat_histories[u]) <= MAX_HISTORY_LENGTH

\* C3: in every reachable state the first message of a chat history is the
\* system message.
C3_SystemMessageFirst ==
    \A u \in DOMAIN chat_histories :
        Len(chat_histories[u]) >= 1 /\ chat_histories[u][1].role = "system"

\* C3, its case: a chat turn truncated the history and the system message
\* is still first.
C3_Truncated ==
    /\ turn.op = "chat" /\ turn.dropped > 0
    /\ chat_histories[turn.user_id][1].role = "system"

\* C4: a chat message that is not an affirmation, sent while a confirmation
\* is pending, answered by the server and carrying no trigger of its own, is
\* answered through the model call and leaves no confirmation pending.
C4_NonAffirmativeResets ==
    [][\A u \in Users :
         (/\ session_state[u].waiting_for_confirmation
          /\ turn'.op = "chat" /\ turn'.user_id = u /\ steps' # steps
          /\ ~turn'.error /\ TriggeredKind(turn') = "None")
         => (turn'.llm_called /\ Idle(session_state'[u]))]_vars

\* C5: "yes" typed while a confirmation of some kind is pending is answered
\* with the canned prompt of that kind, leaves no confirmation pending,
\* sends nothing to the server and calls no model.
C5_YesStartsPendingKind ==
    [][\A u \in Users :
         (/\ session_state[u].waiting_for_confirmation
          /\ turn'.op \in {"chat", "confirm"} /\ turn'.user_id = u /\ steps' # steps
          /\ turn'.input = Yes)
         => (/\ turn'.reply = ConfirmationReply(session_state[u].confirmation_type)
             /\ Idle(session_state'[u])
             /\ \A k \in FormKinds :
                  FormShown(session_state'[u], k)
                    = (FormShown(session_state[u], k)
                         \/ k = session_state[u].confirmation_type)
             /\ ~turn'.llm_called
             /\ chat_histories' = chat_histories
             /\ user_health_data' = user_health_data)]_vars

\* C5, its case: "yes" confirmed the pending kidney function analysis and
\* the kidney form is shown.
C5_KidneyConfirmed ==
    /\ turn.op = "confirm" /\ turn.input = Yes
    /\ turn.reply = <<"Please enter your kidney function test results below:">>
    /\ session_state[turn.user_id].waiting_for_kidney_function
    /\ Idle(session_state[turn.user_id])

\* C6: a trigger (a quick-action button, or an intent tag of a chat turn)
\* that arrives while a confirmation of kind k1 is pending leaves the
\* confirmation of its own kind k2 pending, and only that one.
C6_TriggerReplacesPending ==
    [][\A u \in Users :
         (/\ session_state[u].waiting_for_confirmation
          /\ turn'.user_id = u /\ steps' # steps
          /\ TriggeredKind(turn') # "None")
         => Awaiting(session_state'[u], TriggeredKind(turn'))]_vars

\* C7: a chat turn on which one of the five trigger intents is detected
\* leaves the confirmation of the matching kind pending, and its reply is
\* the model's text followed by the canned suffix of the intent.
C7_IntentAwaitsConfirmation ==
    [][\A u \in Users :
         (/\ turn'.op = "chat" /\ turn'.user_id = u /\ steps' # steps
          /\ ~turn'.error /\ IntentKind(turn'.tools_used) # "None")
         => (/\ Awaiting(session_state'[u], IntentKind(turn'.tools_used))
             /\ \E l \in LLMOutcomes :
                  l.ok /\ turn'.reply = l.text \o ToolResponse(turn'.tools_used[1]))]_vars

\* C8: "New Chat" leaves the health records as they are, and the messages a
\* chat turn sends to the model after the system message are those of the
\* turn's own session (or of assessments, which belong to no session).
C8_SessionsIndependent ==
    [][/\ turn'.op = "new_chat" => user_health_data' = user_health_data
       /\ turn'.op = "chat" =>
            \A i \in 2..Len(turn'.llm_messages) :
                turn'.llm_messages[i].session \in {turn'.session_id, NoSession}]_vars

\* C9: a chat turn that asks for recommendations while health records are
\* stored is answered from the records alone: the model is not called and
\* the client's confirmation state is unchanged.
C9_RecommendationsFromStoreOnly ==
    [][\A u \in Users :
         (/\ turn'.op = "chat" /\ turn'.user_id = u /\ steps' # steps
          /\ AnyKeyword(Lower(turn'.input), RecommendationKeywords)
          /\ HasAnyData(user_health_data, u))
         => (/\ ~turn'.llm_called
             /\ turn'.reply = RecommendationResponse(user_health_data, u)
             /\ session_state'[u] = session_state[u])]_vars

\* The recommendation text of a stored record of kind K.
RecommendationText(kind, record) ==
    CASE kind = "health_score" -> GetOr(record.result, "Improvement Tips", <<>>)
      [] kind = "vital_signs" -> GetOr(record.result, "alerts", <<>>)
      [] OTHER -> GetOr(record.result, "recommendations", <<>>)

\* C10: the reply to a recommendation query includes the recommendation
\* text of every record kind stored for the user.
C10_EveryKindRecommended ==
    (turn.op = "chat" /\ ~turn.error
       /\ InList("personalized_recommendations", turn.tools_used))
    => \A i \in 1..Len(user_health_data[turn.user_id].items) :
          Includes(turn.reply,
                   RecommendationText(user_health_data[turn.user_id].items[i].key,
                                      user_health_data[turn.user_id].items[i].val))

---------------------------------------------------------------------------
(* The intents: queries that match several rules, with and without stored  *)
(* records, with and without a pending confirmation.                       *)

Q_what_should_i_do == <<"w","h","a","t"," ","s","h","o","u","l","d"," ","i"," ","d","o">>
Q_kidney_test_tips == <<"K","i","d","n","e","y"," ","t","e","s","t"," ","T","I","P","S">>
Q_lipid_kidney == <<"l","i","p","i","d"," ","t","e","s","t"," ","k","i","d","n","e","y"," ","t","e","s","t">>
Q_consult_score == <<"C","o","n","s","u","l","t"," ","h","e","a","l","t","h"," ","s","c","o","r","e">>

IntentQueries == {Q_what_should_i_do, Q_kidney_test_tips, Q_lipid_kidney, Q_consult_score}

NextIntents ==
    \/ \E u \in Users, q \in IntentQueries, m \in MODELS, c \in NoContext, l \in LLMOutcomes :
          Tick(MaxSteps) /\ ChatInput(u, q, m, c, l)
    \/ \E u \in Users, k \in ConfirmationKinds : Tick(MaxSteps) /\ QuickAction(u, k)
    \/ \E u \in Users, d \in FormInputs("health_score"), t \in Timestamps :
          Tick(MaxSteps) /\ PostHealthScore(u, d, t)
    \/ \E u \in Users, d \in Readings, t \in Timestamps :
          Tick(MaxSteps) /\ PostTrackProgress(u, d, t)

SpecIntents == Init /\ [][NextIntents]_vars

\* C11: a chat turn whose query holds a recommendation keyword is tagged
\* personalized_recommendations when the user has at least one stored
\* record and no_health_data otherwise; in the latter case the reply names
\* the four assessments to pick from and the client's state is unchanged.
C11_RecommendationByRecords ==
    [][\A u \in Users :
         (/\ turn'.op = "chat" /\ turn'.user_id = u /\ steps' # steps /\ ~turn'.error
          /\ AnyKeyword(Lower(turn'.input), RecommendationKeywords))
         => IF u \in DOMAIN user_health_data /\ Len(user_health_data[u].items) >= 1
            THEN turn'.tools_used = <<"personalized_recommendations">>
            ELSE /\ turn'.tools_used = <<"no_health_data">>
                 /\ Includes(turn'.reply,
                       <<"- Health Score Analysis", "- Vital Signs Monitoring",
                         "- Kidney Function Test", "- Lipid Profile Test",
                         "Type the name of the test you'd like to perform.">>)
                 /\ session_state'[u] = session_state[u]]_vars

\* C11, its case: "what should I do" from a user with no records, sent
\* while the kidney confirmation is pending, which stays pending.
C11_NoHealthDataTurn ==
    /\ turn.op = "chat" /\ turn.input = Q_what_should_i_do
    /\ turn.tools_used = <<"no_health_data">>
    /\ turn.user_id \notin DOMAIN user_health_data
    /\ Awaiting(session_state[turn.user_id], "kidney_function")

\* The rules of the intent chain, in their order.
IntentRules ==
    << RecommendationKeywords, HealthScoreKeywords, VitalSignsKeywords,
       KidneyFunctionKeywords, LipidProfileKeywords, ConsultationKeywords >>

\* The tags each rule can give.
RuleTags ==
    << {"personalized_recommendations", "no_health_data"}, {"health_score_intent"},
       {"vital_signs_intent"}, {"kidney_function_intent"}, {"lipid_profile_intent"},
       {"consultation_intent"} >>

MatchingRules(query_lower) ==
    {r \in 1..Len(IntentRules) : AnyKeyword(query_lower, IntentRules[r])}

\* C12: the intent of a chat turn is that of the first rule, in the order
\* recommendation, health score, vital signs, kidney, lipid, consultation,
\* one of whose keywords the query holds; no tag when no rule matches.
C12_FirstMatchWins ==
    (turn.op = "chat" /\ ~turn.error)
    => LET matching == MatchingRules(Lower(turn.query))
       IN  IF matching = {} THEN turn.tools_used = <<>>
           ELSE /\ Len(turn.tools_used) = 1
                /\ \E r \in matching :
                      /\ \A r2 \in matching : r <= r2
                      /\ turn.tools_used[1] \in RuleTags[r]

\* C12, its case: a query with a kidney, a lipid and (in another turn of the
\* run) a recommendation keyword: here lipid and kidney, resolved to kidney.
C12_TwoRulesMatch ==
    /\ turn.op = "chat" /\ ~turn.error
    /\ Cardinality(MatchingRules(Lower(turn.query))) >= 2
    /\ turn.tools_used = <<"kidney_function_intent">>

\* C12, a second case: a recommendation keyword beside a domain keyword.
C12_RecommendationAndDomain ==
    /\ turn.op = "chat" /\ ~turn.error
    /\ {1, 4} \subseteq MatchingRules(Lower(turn.query))
    /\ turn.tools_used[1] \in RuleTags[1]

---------------------------------------------------------------------------
(* An affirmative message with no confirmation pending.                    *)

\* the user message a /query request sent to the model: the last message
LastSent(t) == t.llm_messages[Len(t.llm_messages)]

\* C13: "yes" typed while no confirmation is pending is a plain chat turn:
\* the request reaches the model call with the text itself as the user
\* message, the only error it can return is that of a failed model call, and
\* after a successful turn the history holds that user message before the
\* assistant's reply.
C13_YesIsPlainChat ==
    [][\A u \in Users :
        (/\ turn'.op = "chat" /\ turn'.user_id = u
         /\ Lower(Strip(turn'.input)) = Yes
         /\ ~session_state[u].waiting_for_confirmation)
        => /\ turn'.llm_called
           /\ LastSent(turn') = Message("user", turn'.input, turn'.session_id)
           /\ ~turn'.error =>
                LET h == chat_histories'[u]
                IN  /\ Len(h) >= 2
                    /\ h[Len(h) - 1] = Message("user", turn'.input, turn'.session_id)]_vars

---------------------------------------------------------------------------
(* The digest sections of the system prompt.                               *)

\* the kinds the system prompt has a digest for, in the order of the code
DigestKinds ==
    <<"reproductive", "vital_signs", "health_score", "kidney_function", "lipid_profile">>

\* the line a digest section starts with
DigestHeader(kind) ==
    CASE kind = "reproductive" -> "Reproductive Health Summary:"
      [] kind = "vital_signs" -> "Vital Signs:"
      [] kind = "health_score" -> "Health Score:"
      [] kind = "kidney_function" -> "Kidney Function:"
      [] kind = "lipid_profile" -> "Lipid Profile:"

\* the positions of a line in a text
Positions(line, text) == {i \in 1..Len(text) : text[i] = line}

\* the user has a stored record of the kind; a reproductive record is
\* stored under the key of its mode
Submitted(hd, user_id, kind) ==
    IF kind = "reproductive"
    THEN \E mode \in ReproductiveModes : HasRecord(hd, user_id, ReproductiveKey(mode))
    ELSE HasRecord(hd, user_id, kind)

\* the content of the system message a /query request sent to the model
SystemContent(t) == t.llm_messages[1].content

C14_DigestPerOtherKind ==
    (turn.op = "chat" /\ turn.llm_called)
    => \A i \in 2..Len(DigestKinds) :
          Cardinality(Positions(DigestHeader(DigestKinds[i]), SystemContent(turn)))
            = IF Submitted(user_health_data, turn.user_id, DigestKinds[i]) THEN 1 ELSE 0

\* C15: the digest sections of the system prompt sent to the model are in
\* the order reproductive, vital signs, health score, kidney, lipid whatever
\* the order of submission; with a kidney record and a lipid record stored,
\* both sections are there and the kidney section comes first.
C15_DigestOrderFixed ==
    (turn.op = "chat" /\ turn.llm_called)
    => LET At(kind) == Positions(DigestHeader(kind), SystemContent(turn))
       IN  /\ \A i \in 1..Len(DigestKinds), j \in 1..Len(DigestKinds) :
                i < j => \A p \in At(DigestKinds[i]), q \in At(DigestKinds[j]) : p < q
           /\ (/\ Submitted(user_health_data, turn.user_id, "kidney_function")
               /\ Submitted(user_health_data, turn.user_id, "lipid_profile"))
              => \E p \in At("kidney_function"), q \in At("lipid_profile") : p < q

\* A chat turn after a lipid submission followed by a kidney submission
C15_LipidSubmittedFirst ==
    /\ turn.op = "chat" /\ turn.llm_called
    /\ turn.user_id \in DOMAIN user_health_data
    /\ LET items == user_health_data[turn.user_id].items
       IN  \E i \in 1..Len(items), j \in 1..Len(items) :
              /\ i < j
              /\ items[i].key = "lipid_profile"
              /\ items[j].key = "kidney_function"
    /\ \E p \in Positions("Kidney Function:", SystemContent(turn)),
          q \in Positions("Lipid Profile:", SystemContent(turn)) : p < q

---------------------------------------------------------------------------
(* The system message of a chat turn.                                      *)

\* the messages of a history that have the system role
SystemMessages(h) == {i \in 1..Len(h) : h[i].role = "system"}

\* C16: on every chat turn that reaches the model call, the first message
\* of the history, and of the messages sent to the model, is the one system
\* message there is, and its content is the system prompt computed from the
\* store as it is at that turn (with whatever context was retrieved).
C16_SystemMessageReplaced ==
    [][\A u \in Users :
        (turn'.op = "chat" /\ turn'.user_id = u /\ turn'.llm_called)
        => LET h == chat_histories'[u]
           IN  /\ SystemMessages(h) = {1}
               /\ SystemMessages(turn'.llm_messages) = {1}
               /\ h[1] = turn'.llm_messages[1]
               /\ \E c \in Contexts : h[1].content = SystemPrompt(user_health_data, u, c)]_vars

\* A chat turn, then a submission, then a second chat turn whose system
\* message has a digest
C16_RecordBetweenTurns ==
    /\ turn.op = "chat" /\ turn.llm_called
    /\ Len(turn.llm_messages) >= 4
    /\ turn.llm_messages[2].role = "user"
    /\ turn.llm_messages[2].session # NoSession
    /\ turn.llm_messages[3].session = NoSession
    /\ \E i \in 1..Len(DigestKinds) :
          Positions(DigestHeader(DigestKinds[i]), SystemContent(turn)) # {}

\* C17: two consecutive chat turns of a user that reach the model call with
\* the same retrieved context and the same records have the same system
\* message: the content of the first message of the history, and of the
\* messages sent to the model, is identical in both, so it does not grow.
C17_SystemPromptIdempotent ==
    [][\A u \in Users :
        (/\ turn.op = "chat" /\ turn.llm_called /\ turn.user_id = u
         /\ turn'.op = "chat" /\ turn'.llm_called /\ turn'.user_id = u
         /\ turn'.context = turn.context
         /\ user_health_data' = user_health_data)
        => /\ chat_histories'[u][1].content = chat_histories[u][1].content
           /\ SystemContent(turn') = SystemContent(turn)
           /\ Len(chat_histories'[u][1].content) = Len(chat_histories[u][1].content)]_vars

\* The second of two consecutive chat turns with the same non-empty context,
\* for a user who has records
C17_SameInputsTwice ==
    /\ turn.op = "chat" /\ turn.llm_called /\ turn.repeated
    /\ turn.context # <<>>
    /\ HasAnyData(user_health_data, turn.user_id)

---------------------------------------------------------------------------
(* The event loop: requests of several clients, served by one thread.      *)

\* requests sent to the server in one run of the event loop specification
MaxArrivals == 3

\* the clients: (user_id, session_id) of a browser tab.  A patient chats,
\* submits and reads; a bystander, in a session of its own, says hello.
Patients == {<<"u1", 1>>}

Bystanders == {<<"u2", 1>>}

LoopQueries == {Q_hello, Q_advice, Yes}

SubmissionRoutes == {"vital_signs"}

ReadRoutes == {"user_health_data", "chat_history"}

\* the data_type of GET /user-health-data: none, or a kind
DataTypes == {"", "vital_signs"}

\* A request.  stage is "waiting" until its handler starts and "calling"
\* while its handler is inside ollama.chat; sent, query and context are the
\* handler's locals at that call, and before is chat_histories as the handler
\* found it.
Request(route, client, input) ==
    [route |-> route, user_id |-> client[1], session_id |-> client[2],
     input |-> input, stage |-> "waiting", query |-> <<>>, context |-> <<>>,
     sent |-> <<>>, before |-> <<>>]

\* the requests whose handler is inside ollama.chat
Calling == {id \in DOMAIN in_flight : in_flight[id].stage = "calling"}

\* the requests whose handler has not started
Waiting(route) ==
    {id \in DOMAIN in_flight :
        in_flight[id].stage = "waiting" /\ in_flight[id].route = route}

\* in_flight once the request is answered
Answered(id) == [i \in DOMAIN in_flight \ {id} |-> in_flight[i]]

\* A handler for every request: requests are served as they arrive, whatever
\* other handler is running.
ThreadPerRequest == TRUE

\* uvicorn.run(app) serves every request on one event loop, and no handler
\* awaits: a handler starts only when no handler is running, and a handler
\* inside the (synchronous) ollama.chat call is running.
EventLoopFree == Calling = {}

\* A client sends a request.
Receive(route, client, input) ==
    /\ Tick(MaxArrivals)
    /\ in_flight' = in_flight @@ ((steps + 1) :> Request(route, client, input))
    /\ UNCHANGED <<chat_histories, user_health_data, session_state, turn>>

ChatRequest(r, model) ==
    [session_id |-> r.session_id, user_id |-> r.user_id, query |-> r.input,
     model |-> model]

\* get_response up to the call of ollama.chat (agent_server.py:631): what
\* the handler has written by then, which is also what an exception of the
\* call leaves behind.  llm_called is FALSE when it returned before the call.
AtModelCall(ch, hd, chat, context) == get_response(ch, hd, chat, context, LLMFailure)

\* The /query handler starts, and runs until it returns early or enters
\* ollama.chat.
StartQuery(id, model, context) ==
    LET r == in_flight[id]
        at == AtModelCall(chat_histories, user_health_data, ChatRequest(r, model), context)
    IN  /\ id \in Waiting("query")
        /\ EventLoopFree
        /\ chat_histories' = at.chat_histories
        /\ IF at.llm_called
           THEN /\ in_flight' =
                     [in_flight EXCEPT ![id] =
                        [r EXCEPT !.stage = "calling", !.query = at.query,
                                  !.context = context, !.sent = at.llm_messages,
                                  !.before = chat_histories]]
                /\ turn' = turn
           ELSE /\ in_flight' = Answered(id)
                /\ turn' = Turn("chat", r.user_id, r.session_id, r.input, at,
                                QueryAgentReply(at))
        /\ UNCHANGED <<user_health_data, session_state, steps>>

\* process_agent_query after ollama.chat (agent_server.py:632-735), on the
\* stores as they are when the call returns.
AfterModelCall(ch, hd, r, llm) ==
    LET intent == DetectIntent(Lower(r.query), hd, r.user_id)
        model_response == ModelResponse(intent, llm.text, hd, r.user_id)
    IN  IF ~llm.ok
        THEN Outcome(ch, hd, TRUE, <<"Failed to process agent query">>, <<>>, TRUE,
                     r.sent, r.query)
        ELSE Outcome([ch EXCEPT ![r.user_id] =
                         Append(@, Message("assistant", model_response, r.session_id))],
                     hd, FALSE, model_response,
                     IF intent = "" THEN <<>> ELSE <<intent>>, TRUE, r.sent, r.query)

\* ollama.chat returns or raises, and the /query handler runs to its end.
FinishQuery(id, llm) ==
    LET r == in_flight[id]
        out == AfterModelCall(chat_histories, user_health_data, r, llm)
    IN  /\ id \in Calling
        /\ chat_histories' = out.chat_histories
        /\ in_flight' = Answered(id)
        /\ turn' = [Turn("chat", r.user_id, r.session_id, r.input, out,
                         QueryAgentReply(out))
                      EXCEPT !.context = r.context,
                             !.dropped = IF r.user_id \in DOMAIN r.before
                                         THEN Len(r.before[r.user_id]) + 1 - Len(r.sent)
                                         ELSE 0]
        /\ UNCHANGED <<user_health_data, session_state, steps>>

\* The handler of an assessment submission runs from start to end.
HandleSubmission(id, timestamp) ==
    LET r == in_flight[id]
        out == SubmitEndpoint(chat_histories, user_health_data, r.user_id, r.route,
                              r.input, timestamp)
    IN  /\ \E k \in SubmissionRoutes : id \in Waiting(k)
        /\ EventLoopFree
        /\ chat_histories' = out.chat_histories
        /\ user_health_data' = out.user_health_data
        /\ in_flight' = Answered(id)
        /\ turn' = Turn("post", r.user_id, NoSession, <<r.route>>, out, out.response)
        /\ UNCHANGED <<session_state, steps>>

\* The handler of GET /user-health-data or GET /chat-history runs from start
\* to end; what it returns is the reply of the turn.
HandleRead(id) ==
    LET r == in_flight[id]
    IN  /\ \E k \in ReadRoutes : id \in Waiting(k)
        /\ EventLoopFree
        /\ in_flight' = Answered(id)
        /\ turn' = Turn("read", r.user_id, r.session_id, <<r.route, r.input>>, NoRequest,
                        IF r.route = "user_health_data"
                        THEN get_user_health_data(user_health_data, r.user_id, r.input)
                        ELSE get_chat_history(chat_histories, user_health_data,
                                              r.user_id, r.session_id))
        /\ UNCHANGED <<chat_histories, user_health_data, session_state, steps>>

NextLoop ==
    \/ \E c \in Patients, q \in LoopQueries : Receive("query", c, q)
    \/ \E c \in Bystanders, q \in WindowQueries : Receive("query", c, q)
    \/ \E c \in Patients, k \in SubmissionRoutes, d \in Readings : Receive(k, c, d)
    \/ \E c \in Patients, t \in DataTypes : Receive("user_health_data", c, t)
    \/ \E c \in Patients : Receive("chat_history", c, "")
    \/ \E id \in DOMAIN in_flight, m \in MODELS, c \in NoContext : StartQuery(id, m, c)
    \/ \E id \in DOMAIN in_flight, l \in LLMOutcomes : FinishQuery(id, l)
    \/ \E id \in DOMAIN in_flight, t \in Timestamps : HandleSubmission(id, t)
    \/ \E id \in DOMAIN in_flight : HandleRead(id)

SpecLoop == Init /\ [][NextLoop]_vars

\* the session a request belongs to
SessionOf(id) == <<in_flight[id].user_id, in_flight[id].session_id>>

\* C18: while the model call of one /query turn is in progress, a /query
\* turn that another session has sent can start.
C18_OtherSessionNotStalled ==
    \A i \in Calling, j \in Waiting("query") :
        SessionOf(j) # SessionOf(i)
        => ENABLED (\E m \in MODELS, c \in NoContext : StartQuery(j, m, c))

\* C19: the chat turns of a session do not interleave.  No two of them are
\* inside the model call at once; from the start of a turn to its end nothing
\* else writes the user's history; and the history the turn leaves is the one
\* the whole handler, run without interruption on the history the turn found,
\* leaves.
C19_TurnsSerialized ==
    [][/\ \A i \in Calling, j \in Calling : SessionOf(i) = SessionOf(j) => i = j
       /\ \A id \in Calling :
            LET r == in_flight[id]
                u == r.user_id
            IN  IF id \in DOMAIN in_flight'
                THEN /\ in_flight'[id] = r
                     /\ chat_histories'[u] = chat_histories[u]
                ELSE \E m \in MODELS, l \in LLMOutcomes :
                        chat_histories'[u] =
                          get_response(r.before, user_health_data, ChatRequest(r, m),
                                       r.context, l).chat_histories[u]]_vars

\* A chat turn that reached the model has been answered while another /query
\* request of the same session was waiting.
C19_SecondTurnWaited ==
    /\ turn.op = "chat" /\ turn.llm_called /\ ~turn.error
    /\ \E j \in Waiting("query") :
          /\ in_flight[j].user_id = turn.user_id
          /\ in_flight[j].session_id = turn.session_id

\* the record is the dict a submission of the kind assigns: the data sent,
\* the result computed from it and the time (agent_server.py:911-915)
WrittenBySubmission(kind, record) ==
    /\ kind \in SubmissionRoutes
    /\ \E d \in Readings, t \in Timestamps :
          record = [data |-> d, result |-> process_vital_signs(d), timestamp |-> t]

\* C20: every record in the store is a whole record, as one submission wrote
\* it, and what GET /user-health-data and GET /chat-history return is the
\* user's entry of the store as it is: the records before a submission that
\* has not been handled, or with the whole record of one that has.
C20_ReadsSeeWholeRecords ==
    /\ \A u \in DOMAIN user_health_data :
          ~user_health_data[u].isList =>
             \A i \in 1..Len(user_health_data[u].items) :
                WrittenBySubmission(user_health_data[u].items[i].key,
                                    user_health_data[u].items[i].val)
    /\ (turn.op = "read" /\ turn.input[1] = "user_health_data")
       => turn.reply =
            get_user_health_data(user_health_data, turn.user_id, turn.input[2])
    /\ (turn.op = "read" /\ turn.input[1] = "chat_history")
       => turn.reply.health_data =
            IF turn.user_id \in DOMAIN user_health_data
            THEN user_health_data[turn.user_id] ELSE DictData(<<>>)

\* GET /user-health-data has returned the record of a first submission
\* while a second submission of the same user was waiting.
C20_ReadBeforeSubmission ==
    /\ turn.op = "read" /\ turn.input[1] = "user_health_data"
    /\ turn.reply.found
    /\ \E j \in Waiting("vital_signs") : in_flight[j].user_id = turn.user_id

---------------------------------------------------------------------------
(* The health record store.                                                *)

ScoreKinds ==
    {"vital_signs", "health_score", "kidney_function", "lipid_profile", "liver_function"}

ProgressRoutes == {"track_progress", "weekly_digest"}

ReproductiveKeys == {ReproductiveKey(mode) : mode \in ReproductiveModes}

\* the user's entry of the store: its items, none for an unknown user
ItemsOf(hd, user_id) == IF user_id \in DOMAIN hd THEN hd[user_id].items ELSE <<>>

IsReproductiveItem(item) == item.key \in ReproductiveKeys

\* the reproductive-health entries retrievable from the user's entry, in
\* the order they are kept in
ReproductiveEntries(hd, user_id) == SelectSeq(ItemsOf(hd, user_id), IsReproductiveItem)

\* older is a prefix of newer, which has one more element
OneAppended(older, newer) ==
    /\ Len(newer) = Len(older) + 1
    /\ SubSeq(newer, 1, Len(older)) = older

\* A submission that was stored (the endpoint returned no error)
StoredSubmission(t, routes) == t.op = "post" /\ ~t.error /\ t.input[1] \in routes

\* C21, score-type kinds: a stored submission leaves exactly one record
\* under the key of its kind and every other key of the user as it was.
C21_ScoreKindsReplace ==
    [][\A u \in Users :
        (StoredSubmission(turn', ScoreKinds) /\ turn'.user_id = u)
        => LET k == turn'.input[1]
               old == ItemsOf(user_health_data, u)
               new == ItemsOf(user_health_data', u)
           IN  /\ Cardinality({i \in 1..Len(new) : new[i].key = k}) = 1
               /\ \A i \in 1..Len(old) :
                     old[i].key # k => \E j \in 1..Len(new) : new[j] = old[i]
               /\ Len(new) = IF HasKey(old, k) THEN Len(old) ELSE Len(old) + 1]_vars

\* C21, progress tracking: a stored reading is appended to the user's list.
C21_ProgressAppends ==
    [][\A u \in Users :
        (StoredSubmission(turn', ProgressRoutes) /\ turn'.user_id = u)
        => OneAppended(ItemsOf(user_health_data, u), ItemsOf(user_health_data', u))]_vars

\* C21, reproductive health: a stored entry is appended to the user's
\* reproductive entries, the earlier ones staying where they were.
C21_ReproductiveAppends ==
    [][\A u \in Users :
        (StoredSubmission(turn', ReproductiveKeys) /\ turn'.user_id = u)
        => OneAppended(ReproductiveEntries(user_health_data, u),
                       ReproductiveEntries(user_health_data', u))]_vars

---------------------------------------------------------------------------
(* Retrieval.                                                              *)

\* no index for the model, a search that raises, a search that finds a
\* document
VectorStores ==
    {VectorStore(FALSE, FALSE, <<>>), VectorStore(TRUE, TRUE, <<>>),
     VectorStore(TRUE, FALSE, <<"retrieved document">>)}

NextRetrieval ==
    \/ \E u \in Users, q \in RecordQueries, m \in MODELS, s \in VectorStores,
          l \in LLMOutcomes : Tick(MaxRequests) /\ ChatTurn(u, q, m, s, l)
    \/ \E u \in Users, d \in FormInputs("vital_signs"), t \in Timestamps :
          Tick(MaxRequests) /\ PostVitalSigns(u, d, t)
    \/ \E u \in Users, d \in FormInputs("kidney_function"), t \in Timestamps :
          Tick(MaxRequests) /\ PostKidneyFunction(u, d, t)

SpecRetrieval == Init /\ [][NextRetrieval]_vars

\* C22: a /query turn whose retrieval failed goes on with an empty context:
\* it reaches the model call, its system prompt has no "Relevant
\* information:" part, and it ends as the same turn with nothing retrieved
\* ends, with an error only when the model call raised.
C22_RetrievalFailureIsSilent ==
    [][\A u \in Users :
        (turn'.op = "chat" /\ turn'.user_id = u /\ turn'.retrieval = "failed")
        => /\ turn'.llm_called
           /\ turn'.context = <<>>
           /\ Positions("Relevant information:", SystemContent(turn')) = {}
           /\ \E m \in MODELS, l \in LLMOutcomes :
                LET out == get_response(chat_histories, user_health_data,
                               [session_id |-> turn'.session_id, user_id |-> u,
                                query |-> turn'.input, model |-> m], <<>>, l)
                IN  /\ chat_histories' = out.chat_histories
                    /\ turn'.error = ~l.ok
                    /\ turn'.reply = QueryAgentReply(out)]_vars

\* A turn of a user with a record, answered by the model after a failed
\* retrieval
C22_AnsweredWithoutContext ==
    /\ turn.op = "chat" /\ turn.retrieval = "failed" /\ ~turn.error
    /\ HasAnyData(user_health_data, turn.user_id)

\* C23: a /query request, answered or failed, leaves the record store of
\* every user as it was.
C23_ChatLeavesRecords ==
    [][turn'.op = "chat" => user_health_data' = user_health_data]_vars

\* A /query request of a user with records whose model call failed
C23_FailedTurnWithRecords ==
    /\ turn.op = "chat" /\ turn.llm_called /\ turn.error
    /\ HasAnyData(user_health_data, turn.user_id)

---------------------------------------------------------------------------
(* Truncation.                                                             *)

\* the history a /query request truncates: the one it found, with the user
\* message appended
BeforeTruncation(t, h) == Append(h, LastSent(t))

\* C24, the part about what is kept: after a truncation the messages after
\* the system message are the most recent ones, in their order.
C24_RecentKept ==
    [][\A u \in Users :
        (turn'.op = "chat" /\ turn'.user_id = u /\ turn'.dropped > 0)
        => LET old == BeforeTruncation(turn', chat_histories[u])
               sent == turn'.llm_messages
           IN  Tail(sent) = SubSeq(old, 2 + turn'.dropped, Len(old))]_vars

\* C24: a truncation drops whole oldest User/Assistant pairs and nothing
\* else: the dropped messages are user, assistant, user, assistant, ..., the
\* message after the system message is a User message, and the messages kept
\* are the most recent ones in their order.
C24_TruncationDropsPairs ==
    [][\A u \in Users :
        (turn'.op = "chat" /\ turn'.user_id = u /\ turn'.dropped > 0)
        => LET old == BeforeTruncation(turn', chat_histories[u])
               sent == turn'.llm_messages
               d == turn'.dropped
           IN  /\ d % 2 = 0
               /\ \A i \in 1..d :
                     old[1 + i].role = IF i % 2 = 1 THEN "user" ELSE "assistant"
               /\ sent[2].role = "user"
               /\ Tail(sent) = SubSeq(old, 2 + d, Len(old))]_vars

\* C24 for histories in which every turn was answered
C24_PairsWhenNoTurnFailed ==
    [][\A u \in Users :
        (/\ turn'.op = "chat" /\ turn'.user_id = u /\ turn'.dropped > 0
         /\ LET h == chat_histories[u]
            IN  /\ Len(h) % 2 = 1
                /\ \A i \in 2..Len(h) :
                      h[i].role = IF i % 2 = 0 THEN "user" ELSE "assistant")
        => LET old == BeforeTruncation(turn', chat_histories[u])
               d == turn'.dropped
           IN  /\ d % 2 = 0
               /\ turn'.llm_messages[2].role = "user"]_vars

\* the User and Assistant messages of a user's history: all but the first
Conversation(ch, user_id) == IF user_id \in DOMAIN ch THEN Tail(ch[user_id]) ELSE <<>>

\* newer is what is left of older once its k oldest messages are dropped,
\* followed by at most two messages appended to it
SuffixThenAppended(older, newer, k) ==
    /\ k <= Len(older)
    /\ Len(newer) >= Len(older) - k
    /\ Len(newer) <= Len(older) - k + 2
    /\ SubSeq(newer, 1, Len(older) - k) = SubSeq(older, k + 1, Len(older))

\* the number of messages the step that led to t dropped from the user's
\* history: those a /query request of the user truncated
DroppedFrom(t, user_id) ==
    IF t.op = "chat" /\ t.user_id = user_id THEN t.dropped ELSE 0

\* C25: the User and Assistant messages of a history are only ever dropped
\* from the old end, by a truncation, and appended at the new end: every
\* step leaves the messages that were there, less the oldest ones a
\* truncation dropped, with contents and order unchanged, before the one or
\* two messages it appends; none of them gets the system role.
C25_ConversationAppendOnly ==
    [][\A u \in Users :
        /\ SuffixThenAppended(Conversation(chat_histories, u),
                              Conversation(chat_histories', u),
                              IF chat_histories' # chat_histories THEN DroppedFrom(turn', u)
                              ELSE 0)
        /\ \A i \in 1..Len(Conversation(chat_histories', u)) :
              Conversation(chat_histories', u)[i].role \in {"user", "assistant"}]_vars

\* A truncated history that holds the messages of a submission too
C25_TruncatedWithSubmission ==
    /\ turn.op = "chat" /\ turn.dropped > 0 /\ ~turn.error
    /\ \E i \in 1..Len(Conversation(chat_histories, turn.user_id)) :
          Conversation(chat_histories, turn.user_id)[i].session = NoSession

---------------------------------------------------------------------------
(* The affirmative test.                                                   *)

Q_YES == <<"Y","E","S">>
Q_yes_padded == <<" ","y","e","s"," ">>

Affirmatives == {Yes, Q_YES, Q_yes_padded}

\* what is typed: an affirmative, or a request that asks for a confirmation
AffirmInputs == Affirmatives \cup {Q_check_vitals}

NextAffirm ==
    \/ \E u \in Users, q \in AffirmInputs : Tick(MaxSteps) /\ Confirm(u, q)
    \/ \E u \in Users, q \in AffirmInputs, m \in MODELS, c \in NoContext,
          l \in LLMOutcomes : Tick(MaxSteps) /\ ChatInput(u, q, m, c, l)
    \/ \E u \in Users, k \in ConfirmationKinds : Tick(MaxSteps) /\ QuickAction(u, k)
    \/ \E u \in Users, k \in FormKinds, t \in Timestamps :
          \E d \in FormInputs(k) : Tick(MaxSteps) /\ SubmitForm(u, k, d, t)
    \/ \E u \in Users : Tick(MaxSteps) /\ NewChat(u)

SpecAffirm == Init /\ [][NextAffirm]_vars

\* what a chat input of the user did to a pending confirmation: it was
\* resolved, the sub-flow of the pending kind was started, and nothing was
\* sent to the server
Resolves(u) ==
    /\ turn'.op = "confirm"
    /\ turn'.reply = ConfirmationReply(session_state[u].confirmation_type)
    /\ Idle(session_state'[u])
    /\ \A k \in FormKinds :
          FormShown(session_state'[u], k)
            = (FormShown(session_state[u], k) \/ k = session_state[u].confirmation_type)

\* C26: while a confirmation is pending, a chat input that is "yes" once
\* trimmed and lower-cased ("yes", "YES", " yes ") resolves it and starts
\* the pending sub-flow.
C26_AffirmativeNormalized ==
    [][\A u \in Users :
        (/\ session_state[u].waiting_for_confirmation
         /\ turn'.op \in {"chat", "confirm"} /\ turn'.user_id = u /\ steps' # steps
         /\ Lower(Strip(turn'.input)) = Yes)
        => Resolves(u)]_vars

\* C26 without the trimming: a chat input that is "yes" once lower-cased
C26_AffirmativeAnyCase ==
    [][\A u \in Users :
        (/\ session_state[u].waiting_for_confirmation
         /\ turn'.op \in {"chat", "confirm"} /\ turn'.user_id = u /\ steps' # steps
         /\ Lower(turn'.input) = Yes)
        => Resolves(u)]_vars


---------------------------------------------------------------------------
(* What the model is sent *)

SentQueries == {Q_hello, Yes}

\* Chat turns, plain or affirmative, around vital-signs submissions.
NextSent ==
    \/ \E u \in Users, q \in SentQueries, m \in MODELS, c \in Contexts, l \in LLMOutcomes :
          Tick(MaxRequests) /\ ChatInput(u, q, m, c, l)
    \/ \E u \in Users, d \in Readings, t \in Timestamps :
          Tick(MaxRequests) /\ PostVitalSigns(u, d, t)

SpecSent == Init /\ [][NextSent]_vars

\* The list handed to ollama.chat by the turn t that typed `text`: the system
\* prompt of this turn first, `text` as a user message last, and no more than
\* MAX_HISTORY_LENGTH messages.
SentFor(t, hd, text) ==
    LET sent == t.llm_messages
    IN  /\ Len(sent) <= MAX_HISTORY_LENGTH
        /\ sent[1].role = "system"
        /\ sent[1].content = SystemPrompt(hd, t.user_id, t.context)
        /\ LastSent(t).role = "user"
        /\ LastSent(t).content = text

\* C27: whenever the model is invoked on a chat turn, the list it is given
\* starts with this turn's system message, ends with the query the user sent in
\* this turn, and has at most MAX_HISTORY_LENGTH elements.
C27_SentListShape ==
    [][(turn'.op = "chat" /\ turn'.llm_called)
        => SentFor(turn', user_health_data, turn'.input)]_vars

\* The same with the query process_agent_query was called with, which is the
\* follow-up text when the user's query was an affirmative.
C27_SentListShapeOfProcessedQuery ==
    [][(turn'.op = "chat" /\ turn'.llm_called)
        => SentFor(turn', user_health_data, turn'.query)]_vars

\* A turn whose list was cut to MAX_HISTORY_LENGTH before it was sent.
C27_SentAfterTruncation ==
    /\ turn.op = "chat" /\ turn.llm_called /\ turn.dropped > 0
    /\ Len(turn.llm_messages) = MAX_HISTORY_LENGTH


---------------------------------------------------------------------------
(* Submissions after submissions *)

\* Input the endpoint of `kind` does not refuse by itself.
ValidSubmission(kind, data) ==
    /\ kind \in {"health_score", "kidney_function", "lipid_profile"} => data # EmptyDict
    /\ kind = "kidney_function" => ~KidneyToolRaises(data)

\* The step is the submission of `data` to the endpoint of `kind`.
IsSubmission(u, kind, data, timestamp) ==
    Post(u, kind, SubmitEndpoint(chat_histories, user_health_data, u, kind,
                                 data, timestamp))

\* The submission is in the store under the key of its kind.
RecordKept(hd, u, kind, data, timestamp) ==
    /\ u \in DOMAIN hd
    /\ ~hd[u].isList
    /\ HasKey(hd[u].items, kind)
    /\ Get(hd[u].items, kind).data = data
    /\ Get(hd[u].items, kind).timestamp = timestamp

\* The submission to /track-progress or /weekly-digest is the last reading
\* of the user's list.
ReadingKept(hd, u) ==
    /\ u \in DOMAIN hd
    /\ hd[u].isList
    /\ Len(hd[u].items) > 0

\* C28: a submission with valid input returns no error and stores its record,
\* whatever was submitted before for the same user: a /vital-signs,
\* /health-score, /kidney-function or /lipid-profile submission after a
\* /track-progress or /weekly-digest one, and the other way round.
C28_SubmissionAlwaysStores ==
    [][\A u \in Users :
        /\ \A k \in FormKinds, t \in Timestamps : \A d \in FormInputs(k) :
              (ValidSubmission(k, d) /\ IsSubmission(u, k, d, t))
              => (~turn'.error /\ RecordKept(user_health_data', u, k, d, t))
        /\ (turn'.op = "post" /\ turn'.user_id = u /\ turn'.input[1] \in ProgressRoutes)
              => (~turn'.error /\ ReadingKept(user_health_data', u))]_vars

\* The same for a user whose entry, if any, was created by an endpoint of the
\* same family (a dict for the assessments, a list for the progress routes).
C28_StoresAfterSameFamily ==
    [][\A u \in Users :
        /\ \A k \in FormKinds, t \in Timestamps : \A d \in FormInputs(k) :
              (/\ ValidSubmission(k, d) /\ IsSubmission(u, k, d, t)
               /\ ~StoreRaises(user_health_data, u))
              => (~turn'.error /\ RecordKept(user_health_data', u, k, d, t))
        /\ (/\ turn'.op = "post" /\ turn'.user_id = u
            /\ turn'.input[1] \in ProgressRoutes
            /\ ~AppendRaises(user_health_data, u))
              => (~turn'.error /\ ReadingKept(user_health_data', u))]_vars


---------------------------------------------------------------------------
(* Submissions and the chat history *)

\* The endpoints that record an assessment and tell the chat about it.
AssessmentRoutes == ScoreKinds \cup ReproductiveKeys

\* newer is older with one user message and then one assistant message after
\* it, nothing dropped and nothing changed.
ExchangeAppended(older, newer) ==
    /\ Len(newer) = Len(older) + 2
    /\ SubSeq(newer, 1, Len(older)) = older
    /\ newer[Len(older) + 1].role = "user"
    /\ newer[Len(older) + 2].role = "assistant"

\* What a submission of user u does to the chat histories: none is created,
\* and the history u has gets one exchange.
HistoryAfterSubmission(u) ==
    IF u \in DOMAIN chat_histories
    THEN /\ DOMAIN chat_histories' = DOMAIN chat_histories
         /\ \A v \in DOMAIN chat_histories \ {u} :
               chat_histories'[v] = chat_histories[v]
         /\ ExchangeAppended(chat_histories[u], chat_histories'[u])
    ELSE chat_histories' = chat_histories

\* C29: an assessment submission creates no chat history; a user without one
\* leaves chat_histories unchanged, and a user with one gets exactly one user
\* message and one assistant message after the existing messages, none of
\* which is dropped or changed.
C29_SubmissionAppendsExchange ==
    [][\A u \in Users :
        (turn'.op = "post" /\ turn'.user_id = u /\ turn'.input[1] \in AssessmentRoutes)
        => HistoryAfterSubmission(u)]_vars

\* The same for the submissions that were stored.
C29_StoredSubmissionAppendsExchange ==
    [][\A u \in Users :
        (StoredSubmission(turn', AssessmentRoutes) /\ turn'.user_id = u)
        => HistoryAfterSubmission(u)]_vars

\* No request to a submission endpoint, stored or refused, creates a history,
\* drops a message or changes one.
C29_SubmissionKeepsMessages ==
    [][turn'.op = "post"
        => /\ DOMAIN chat_histories' = DOMAIN chat_histories
           /\ \A v \in DOMAIN chat_histories :
                 /\ Len(chat_histories'[v]) >= Len(chat_histories[v])
                 /\ SubSeq(chat_histories'[v], 1, Len(chat_histories[v]))
                      = chat_histories[v]]_vars


---------------------------------------------------------------------------
(* The pending confirmation of the client *)

\* C30: in every reachable state of the client (quick-action clicks, chat
\* messages, intent replies, confirmations, New Chat), waiting_for_confirmation
\* is true exactly when confirmation_type is one of the five known kinds, and so
\* no confirmation was answered by the fallback reply of handle_confirmation.
C30_FlagMatchesKind ==
    /\ \A u \in Users :
          LET ss == session_state[u]
          IN  /\ ss.confirmation_type \in ConfirmationKinds \cup {"None"}
              /\ ss.waiting_for_confirmation <=> ss.confirmation_type \in ConfirmationKinds
    /\ turn.op = "confirm" => turn.reply # ConfirmationReply("None")

\* A confirmation given in the second chat of the tab: New Chat, a quick
\* action, then "yes".
C30_ConfirmedAfterNewChat ==
    /\ turn.op = "confirm"
    /\ turn.session_id > 1
    /\ Idle(session_state[turn.user_id])

=============================================================================
